---- MODULE Spec2Model ----
(***************************************************************************)
(* Model of the KotOR resource extractor: the KEY/BIF, ERF and RIM         *)
(* decoders and the ResourceManager engine built on them.                  *)
(*                                                                         *)
(* Conventions.  A character is a one-character string; the control        *)
(* character NUL is the token "NUL" and TAB the token "TAB".  A name, a    *)
(* signature and a version are sequences of characters.  A byte buffer is  *)
(* a sequence of byte values.  A file is the record of what struct.unpack  *)
(* reads from it: its header fields, the fixed-stride records physically   *)
(* present at the table offsets, and the whole buffer `data`.  A Python    *)
(* exception is a result record with kind = "error" and the exception      *)
(* class in `exc`; None is the record [class |-> "None"].                  *)
(***************************************************************************)
EXTENDS Integers, Sequences, FiniteSets, TLC

\* Python's None, as a record so that it compares with any object.
None == [class |-> "None"]

Min(a, b) == IF a < b THEN a ELSE b

Range(s) == {s[i] : i \in 1..Len(s)}

\* ------------------------------------------------------------------------
\* Characters and names
\* ------------------------------------------------------------------------

UpperLetters ==
  <<"A","B","C","D","E","F","G","H","I","J","K","L","M",
    "N","O","P","Q","R","S","T","U","V","W","X","Y","Z">>

LowerLetters ==
  <<"a","b","c","d","e","f","g","h","i","j","k","l","m",
    "n","o","p","q","r","s","t","u","v","w","x","y","z">>

Digits == {"0","1","2","3","4","5","6","7","8","9"}

UpperSet == {UpperLetters[i] : i \in 1..26}
LowerSet == {LowerLetters[i] : i \in 1..26}

LowerMap == [c \in UpperSet |-> LowerLetters[CHOOSE i \in 1..26 : UpperLetters[i] = c]]

\* str.lower() on one character.
LowerChar(c) == IF c \in UpperSet THEN LowerMap[c] ELSE c

RECURSIVE MapLower(_)
MapLower(s) ==
  IF s = <<>> THEN <<>> ELSE <<LowerChar(Head(s))>> \o MapLower(Tail(s))

\* str.lower()
Lower(s) == MapLower(s)

\* str.isprintable() on one character: the control characters are not.
IsPrintable(c) == c \notin {"NUL", "TAB"}

\* The whitelist of re.sub(r"[^A-Za-z0-9_\-]", "", name).
AllowedSet == UpperSet \cup LowerSet \cup Digits \cup {"_", "-"}

AllowedChar(c) == c \in AllowedSet

Unknown == <<"u","n","k","n","o","w","n">>

\* Variant of sanitize_resref without the default for a name of which
\* nothing is left.
sanitize_resref_no_default(name) ==
  IF name = <<>> THEN Unknown
  ELSE SelectSeq(SelectSeq(name, IsPrintable), AllowedChar)

\* Sanitize.sanitize_resref
sanitize_resref(name) ==
  IF name = <<>> THEN Unknown
  ELSE LET printable == SelectSeq(name, IsPrintable)
           clean     == SelectSeq(printable, AllowedChar)
       IN IF clean = <<>> THEN Unknown ELSE clean

\* raw.split(b"\x00")[0]: the bytes before the first NUL.
RECURSIVE BeforeNul(_)
BeforeNul(raw) ==
  IF raw = <<>> \/ Head(raw) = "NUL" THEN <<>>
  ELSE <<Head(raw)>> \o BeforeNul(Tail(raw))

\* The name of a table record: truncated at the first NUL, then sanitized.
DecodeResRef(raw) == sanitize_resref(BeforeNul(raw))

\* ------------------------------------------------------------------------
\* Byte buffers
\* ------------------------------------------------------------------------

\* data[start:end] of Python, for start, end >= 0: clamped to the buffer.
Slice(data, start, end) ==
  LET e == Min(end, Len(data))
  IN IF start >= e THEN <<>> ELSE SubSeq(data, start + 1, e)

\* ------------------------------------------------------------------------
\* Packed identifiers (KEY)
\* ------------------------------------------------------------------------

RECURSIVE Pow2(_)
Pow2(n) == IF n = 0 THEN 1 ELSE 2 * Pow2(n - 1)

\* rid >> n
ShiftRight(rid, n) == rid \div Pow2(n)

\* rid & mask, for a mask of the form 2^k - 1
AndMask(rid, mask) == rid % (mask + 1)

Mask12 == 4095      \* 0xFFF
Mask20 == 1048575   \* 0xFFFFF
Mask6  == 63        \* 0x3F

BIFIndexOf(rid) == AndMask(ShiftRight(rid, 20), Mask12)

\* Variant of ResourceIndexOf that keeps only the bits below the fixed-slot
\* field.
ResourceIndexOf_low14(rid) == rid % Pow2(14)

ResourceIndexOf(rid) == AndMask(rid, Mask20)

FixedIndexOf(rid) == AndMask(ShiftRight(rid, 14), Mask6)

\* ------------------------------------------------------------------------
\* Headers: signature and version checks
\* ------------------------------------------------------------------------

Sig(a, b, c, d) == <<a, b, c, d>>

KEY_SIG   == Sig("K","E","Y"," ")
BIFF_SIG  == Sig("B","I","F","F")
RIM_SIG   == Sig("R","I","M"," ")
ERF_SIGS  == { Sig("E","R","F"," "), Sig("M","O","D"," "), Sig("H","A","K"," "),
               Sig("S","A","V"," "), Sig("N","W","M"," ") }
V1_0      == Sig("V","1",".","0")

\* bytes.startswith(b"V1")
StartsWithV1(ver) == Len(ver) >= 2 /\ ver[1] = "V" /\ ver[2] = "1"

Err(exc) == [kind |-> "error", exc |-> exc]

Ok == [kind |-> "ok"]

\* Key._read_header: Ok or the exception raised.  struct.unpack_from raises
\* struct.error on a buffer shorter than the header.
KeyHeaderCheck(f) ==
  IF ~f.header_complete THEN Err("struct.error")
  ELSE IF f.FileType # KEY_SIG THEN Err("ValueError")
  ELSE IF ~StartsWithV1(f.Version) THEN Err("ValueError")
  ELSE Ok

\* BifFormat.Header.set_variables
BifHeaderCheck(f) ==
  IF ~f.header_complete THEN Err("struct.error")
  ELSE IF f.FileType # BIFF_SIG THEN Err("ValueError")
  ELSE IF ~StartsWithV1(f.Version) THEN Err("ValueError")
  ELSE Ok

\* ERF._read_header
ErfHeaderCheck(f) ==
  IF ~f.header_complete THEN Err("ValueError")
  ELSE IF f.FileType \notin ERF_SIGS THEN Err("ValueError")
  ELSE IF f.Version # V1_0 THEN Err("ValueError")
  ELSE Ok

\* RIM._read_header
RimHeaderCheck(f) ==
  IF ~f.header_complete THEN Err("ValueError")
  ELSE IF f.FileType # RIM_SIG THEN Err("ValueError")
  ELSE IF f.Version # V1_0 THEN Err("ValueError")
  ELSE Ok

\* ------------------------------------------------------------------------
\* Loading: Key, BIF, ERF, RIM
\*
\* A load result is [kind, exc, obj, steps]: `steps` lists the parts of the
\* file the constructor read, in order.
\* ------------------------------------------------------------------------

Loaded(obj, steps) == [kind |-> "ok", exc |-> None, obj |-> obj, steps |-> steps]
LoadFailed(exc, steps) == [kind |-> "error", exc |-> exc, obj |-> None, steps |-> steps]

\* One KeyEntry: Key._read_key_table, then _assign_bif_indexes and
\* _assign_entry_indexes (i is the 0-based position in the table).
KeyEntry(rec, i) ==
  [ ResRef        |-> DecodeResRef(rec.ResRef),
    ResourceType  |-> rec.ResourceType,
    ResID         |-> rec.ResID,
    BIFIndex      |-> BIFIndexOf(rec.ResID),
    ResourceIndex |-> ResourceIndexOf(rec.ResID),
    FixedIndex    |-> FixedIndexOf(rec.ResID),
    EntryIndex    |-> i ]

\* Key.__init__
KeyLoad(f) ==
  LET h == KeyHeaderCheck(f) IN
  IF h.kind = "error" THEN LoadFailed(h.exc, <<"header">>)
  ELSE IF f.BIFCount > Len(f.file_table)
    THEN LoadFailed("struct.error", <<"header", "file_table">>)
  ELSE IF f.KeyCount > Len(f.key_table)
    THEN LoadFailed("struct.error", <<"header", "file_table", "key_table">>)
  ELSE Loaded([ file_table |-> SubSeq(f.file_table, 1, f.BIFCount),
                key_table  |-> [i \in 1..f.KeyCount |-> KeyEntry(f.key_table[i], i - 1)] ],
              <<"header", "file_table", "key_table">>)

VariableResourceEntry(rec, i) ==
  [ ID |-> rec.ID, Offset |-> rec.Offset, FileSize |-> rec.FileSize,
    ResourceType |-> rec.ResourceType, EntryIndex |-> i ]

FixedResourceEntry(rec, i) ==
  [ ID |-> rec.ID, Offset |-> rec.Offset, PartCount |-> rec.PartCount,
    FileSize |-> rec.FileSize, ResourceType |-> rec.ResourceType,
    EntryIndex |-> i ]

\* BIF.__init__
BifLoad(f) ==
  LET h == BifHeaderCheck(f) IN
  IF h.kind = "error" THEN LoadFailed(h.exc, <<"header">>)
  ELSE IF f.VariableResourceCount > Len(f.vtable)
    THEN LoadFailed("struct.error", <<"header", "variable_table">>)
  ELSE IF f.FixedResourceCount > Len(f.ftable)
    THEN LoadFailed("struct.error", <<"header", "variable_table", "fixed_table">>)
  ELSE Loaded([ variable_resources |->
                  [i \in 1..f.VariableResourceCount |-> VariableResourceEntry(f.vtable[i], i - 1)],
                fixed_resources |->
                  IF f.FixedResourceCount = 0 THEN <<>>
                  ELSE [i \in 1..f.FixedResourceCount |-> FixedResourceEntry(f.ftable[i], i - 1)],
                data |-> f.data ],
              <<"header", "variable_table", "fixed_table">>)

\* ERF._read_key_list: one ERFKeyEntry
ERFKeyEntry(rec, i) ==
  [ ResRef |-> DecodeResRef(rec.ResRef), ResID |-> rec.ResID, ResType |-> rec.ResType ]

\* ERF._read_resource_list: one ERFResourceEntry
ERFResourceEntry(rec, i) ==
  [ OffsetToResource |-> rec.Offset, ResourceSize |-> rec.Size ]

\* ERF._combine_entries: zip(key_entries, resource_entries)
RECURSIVE CombineEntries(_, _)
CombineEntries(keys, res) ==
  IF keys = <<>> \/ res = <<>> THEN <<>>
  ELSE << [ ResRef  |-> Head(keys).ResRef,
            ResType |-> Head(keys).ResType,
            ResID   |-> Head(keys).ResID,
            Offset  |-> Head(res).OffsetToResource,
            Size    |-> Head(res).ResourceSize ] >>
       \o CombineEntries(Tail(keys), Tail(res))

\* Variant of BuildIndex in which a record replaces the record stored
\* under its name.
RECURSIVE BuildIndex_replace(_, _)
BuildIndex_replace(entries, index) ==
  IF entries = <<>> THEN index
  ELSE BuildIndex_replace(Tail(entries),
                          [x \in DOMAIN index \cup {Lower(Head(entries).ResRef)} |->
                             IF x = Lower(Head(entries).ResRef) THEN <<Head(entries)>>
                             ELSE index[x]])

\* by_resref.setdefault(e.ResRef.lower(), []).append(e), for e in order.
RECURSIVE BuildIndex(_, _)
BuildIndex(entries, index) ==
  IF entries = <<>> THEN index
  ELSE LET e == Head(entries)
           k == Lower(e.ResRef)
           old == IF k \in DOMAIN index THEN index[k] ELSE <<>>
       IN BuildIndex(Tail(entries),
                     [x \in DOMAIN index \cup {k} |->
                        IF x = k THEN Append(old, e) ELSE index[x]])

EmptyMap == [x \in {} |-> None]

\* ERF.__init__
ErfLoad(f) ==
  LET h == ErfHeaderCheck(f) IN
  IF h.kind = "error" THEN LoadFailed(h.exc, <<"header">>)
  ELSE IF f.LanguageCount > Len(f.strings)
    THEN LoadFailed("struct.error", <<"header", "localized_strings">>)
  ELSE IF f.EntryCount > Len(f.key_list)
    THEN LoadFailed("struct.error", <<"header", "localized_strings", "key_list">>)
  ELSE IF f.EntryCount > Len(f.resource_list)
    THEN LoadFailed("struct.error",
                    <<"header", "localized_strings", "key_list", "resource_list">>)
  ELSE LET keys == [i \in 1..f.EntryCount |-> ERFKeyEntry(f.key_list[i], i - 1)]
           res  == [i \in 1..f.EntryCount |-> ERFResourceEntry(f.resource_list[i], i - 1)]
           entries == CombineEntries(keys, res)
       IN Loaded([ class |-> "ERF", entries |-> entries,
                   by_resref |-> BuildIndex(entries, EmptyMap),
                   data |-> f.data ],
                 <<"header", "localized_strings", "key_list", "resource_list">>)

\* RIM._read_entries: one RIMEntry
RIMEntry(rec, i) ==
  [ ResRef |-> DecodeResRef(rec.ResRef), ResType |-> rec.ResType,
    ResID |-> rec.ResID, Offset |-> rec.Offset, Size |-> rec.Size ]

\* RIM.__init__
RimLoad(f) ==
  LET h == RimHeaderCheck(f) IN
  IF h.kind = "error" THEN LoadFailed(h.exc, <<"header">>)
  ELSE IF f.KeyCount > Len(f.entries)
    THEN LoadFailed("struct.error", <<"header", "entries">>)
  ELSE LET entries == [i \in 1..f.KeyCount |-> RIMEntry(f.entries[i], i - 1)]
       IN Loaded([ class |-> "RIM", entries |-> entries,
                   by_resref |-> BuildIndex(entries, EmptyMap),
                   data |-> f.data ],
                 <<"header", "entries">>)

\* ------------------------------------------------------------------------
\* ResourceTypes.ResourceTypeInfo
\* ------------------------------------------------------------------------

\* ResourceTypeInfo._TABLE: type code -> extension
TypeTable ==
     2002 :> <<"m","d","l">>
  @@ 2007 :> <<"t","p","c">>
  @@ 2009 :> <<"n","c","s">>
  @@ 2010 :> <<"n","s","s">>
  @@ 2012 :> <<"a","r","e">>
  @@ 2014 :> <<"i","f","o">>
  @@ 2016 :> <<"w","o","k">>
  @@ 2017 :> <<"2","d","a">>
  @@ 2018 :> <<"t","l","k">>
  @@ 2022 :> <<"t","x","i">>
  @@ 2023 :> <<"g","i","t">>
  @@ 2025 :> <<"u","t","i">>
  @@ 2027 :> <<"u","t","c">>
  @@ 2029 :> <<"d","l","g">>
  @@ 2032 :> <<"u","t","t">>
  @@ 2033 :> <<"d","d","s">>
  @@ 2035 :> <<"u","t","s">>
  @@ 2036 :> <<"l","t","r">>
  @@ 2037 :> <<"g","f","f">>
  @@ 2038 :> <<"f","a","c">>
  @@ 2040 :> <<"u","t","e">>
  @@ 2042 :> <<"u","t","d">>
  @@ 2044 :> <<"u","t","p">>
  @@ 2047 :> <<"g","u","i">>
  @@ 2051 :> <<"u","t","m">>
  @@ 2052 :> <<"d","w","k">>
  @@ 2053 :> <<"p","w","k">>
  @@ 2056 :> <<"j","r","l">>
  @@ 2058 :> <<"u","t","w">>
  @@ 2060 :> <<"s","s","f">>
  @@ 3000 :> <<"l","y","t">>
  @@ 3001 :> <<"v","i","s">>
  @@ 3002 :> <<"r","i","m">>
  @@ 3003 :> <<"p","t","h">>
  @@ 3004 :> <<"l","i","p">>
  @@ 3007 :> <<"t","p","c">>
  @@ 3008 :> <<"m","d","x">>
  @@ 9997 :> <<"e","r","f">>
  @@ 9998 :> <<"b","i","f">>
  @@ 9999 :> <<"k","e","y">>

\* ResourceTypeInfo.get_extension(t) or "bin"
ExtensionOrBin(t) == IF t \in DOMAIN TypeTable THEN TypeTable[t] ELSE <<"b","i","n">>

\* ------------------------------------------------------------------------
\* State
\* ------------------------------------------------------------------------

VARIABLES
  world,           \* the files on disk; no operation writes them
  constructed,     \* TRUE once ResourceManager.__init__ has returned
  key_path,        \* ResourceManager.key_path
  erf_path,        \* ResourceManager.erf_path
  key,             \* ResourceManager.key: a Key object or None
  erf,             \* ResourceManager.erf: an ERF or RIM object or None
  bif_cache,       \* ResourceManager.bif_cache: segment index -> BIF object
  by_resref,       \* ResourceManager.by_resref: lower-cased name -> entries
  by_resid,        \* ResourceManager.by_resid
  by_entry_index,  \* ResourceManager.by_entry_index
  texture_lookup,  \* ResourceManager._texture_lookup: None, False or the object
  bif_opens,       \* history: segment index -> number of BIF(path) calls
  missing,         \* history: segment indexes an extract found absent from disk
  out_files,       \* the files of the export folder: file name -> bytes
  erf_parses,      \* history: container path -> number of ERF(path) calls
  ret              \* history: the last call, its result and what it did

vars == << world, constructed, key_path, erf_path, key, erf, bif_cache,
           by_resref, by_resid, by_entry_index, texture_lookup, bif_opens, missing,
           out_files, erf_parses, ret >>

\* An optional path argument: None, or a string (possibly empty).
NonePath == [isNone |-> TRUE, chars |-> <<>>]
PathOf(chars) == [isNone |-> FALSE, chars |-> chars]

\* Python truthiness of an optional string
Truthy(p) == ~p.isNone /\ p.chars # <<>>

\* An optional type code: NoType stands for resource_type=None.
NoType == 0 - 1

Absent == [class |-> "absent"]

DOT_RIM == <<".","r","i","m">>

\* str.endswith
EndsWith(s, suffix) ==
  Len(s) >= Len(suffix) /\ SubSeq(s, Len(s) - Len(suffix) + 1, Len(s)) = suffix

\* dict.get(k, [])
GetList(d, k) == IF k \in DOMAIN d THEN d[k] ELSE <<>>

\* Variant of the dictionary in which the first record of an identifier
\* stays.
DictByResID_first_kept(table) ==
  [v \in {table[i].ResID : i \in 1..Len(table)} |->
     table[CHOOSE i \in 1..Len(table) :
             /\ table[i].ResID = v
             /\ \A j \in 1..(i - 1) : table[j].ResID # v]]

\* {e.ResID: e for e in key_table}: the last record with the key wins.
DictByResID(table) ==
  [v \in {table[i].ResID : i \in 1..Len(table)} |->
     table[CHOOSE i \in 1..Len(table) :
             /\ table[i].ResID = v
             /\ \A j \in (i + 1)..Len(table) : table[j].ResID # v]]

\* {e.EntryIndex: e for e in key_table}
DictByEntryIndex(table) ==
  [v \in {table[i].EntryIndex : i \in 1..Len(table)} |->
     table[CHOOSE i \in 1..Len(table) :
             /\ table[i].EntryIndex = v
             /\ \A j \in (i + 1)..Len(table) : table[j].EntryIndex # v]]

\* ------------------------------------------------------------------------
\* ResourceManager: lookups
\* ------------------------------------------------------------------------

\* dict.get(key)
DictGet(d, k) == IF k \in DOMAIN d THEN d[k] ELSE None

\* ResourceManager.get_resource_entry_by_resid
get_resource_entry_by_resid(resid) ==
  IF erf # None THEN None ELSE DictGet(by_resid, resid)

\* ResourceManager.get_resource_entry_by_index
get_resource_entry_by_index(entry_index) ==
  IF erf # None THEN None ELSE DictGet(by_entry_index, entry_index)

\* ResourceManager.get_resource_entries
get_resource_entries(resref) ==
  IF erf # None THEN GetList(erf.by_resref, Lower(resref))
  ELSE GetList(by_resref, Lower(resref))

\* e.ResType if self.erf else e.ResourceType
EntryType(e) == IF erf # None THEN e.ResType ELSE e.ResourceType

Found(e) == [kind |-> "found", exc |-> "", entry |-> e]
NotFound == [kind |-> "none", exc |-> "", entry |-> None]
FindError(exc) == [kind |-> "error", exc |-> exc, entry |-> None]

\* for e in entries: if type(e) == t: return e; return None.  `types` is
\* the sequence of the entries' type codes.
FirstOfType(entries, types, t) ==
  IF \E i \in 1..Len(entries) : types[i] = t
  THEN Found(entries[CHOOSE i \in 1..Len(entries) :
                       /\ types[i] = t
                       /\ \A j \in 1..(i - 1) : types[j] # t])
  ELSE NotFound

\* Variant of get_resource_entry that returns the first entry without
\* counting the type codes.
get_resource_entry_first(resref, resource_type) ==
  LET entries == get_resource_entries(resref) IN
  IF entries = <<>> THEN NotFound
  ELSE IF resource_type = NoType THEN Found(entries[1])
  ELSE FirstOfType(entries, [i \in 1..Len(entries) |-> EntryType(entries[i])],
                   resource_type)

\* ResourceManager.get_resource_entry
get_resource_entry(resref, resource_type) ==
  LET entries == get_resource_entries(resref) IN
  IF entries = <<>> THEN NotFound
  ELSE IF resource_type = NoType
    THEN IF Cardinality({EntryType(entries[i]) : i \in 1..Len(entries)}) > 1
         THEN FindError("ValueError")
         ELSE Found(entries[1])
  ELSE FirstOfType(entries, [i \in 1..Len(entries) |-> EntryType(entries[i])],
                   resource_type)

\* ERF.get_entry, on the ERF object a
erf_get_entry(a, resref, res_type) ==
  LET entries == GetList(a.by_resref, Lower(resref)) IN
  IF entries = <<>> THEN NotFound
  ELSE IF res_type = NoType
    THEN IF Cardinality({entries[i].ResType : i \in 1..Len(entries)}) > 1
         THEN FindError("ValueError")
         ELSE Found(entries[1])
  ELSE FirstOfType(entries, [i \in 1..Len(entries) |-> entries[i].ResType], res_type)

\* ------------------------------------------------------------------------
\* Extraction
\* ------------------------------------------------------------------------

\* ERF.extract_entry / RIM.extract_entry on the archive object a
archive_extract_entry(a, entry) ==
  Slice(a.data, entry.Offset, entry.Offset + entry.Size)

\* BIF.get_variable_resource_data
get_variable_resource_data(bif, index) ==
  LET e == bif.variable_resources[index + 1]
  IN Slice(bif.data, e.Offset, e.Offset + e.FileSize)

\* BIF.get_fixed_resource_data
get_fixed_resource_data(bif, index) ==
  LET e == bif.fixed_resources[index + 1]
  IN Slice(bif.data, e.Offset, e.Offset + e.FileSize)

\* os.path.exists(self.key.get_bif_path(index))
BifExists(filename) ==
  filename \in DOMAIN world.bifs /\ world.bifs[filename] # Absent

\* ResourceManager._load_bif: the BIF object or the exception, the cache
\* afterwards, whether BIF(path) was called and the parts of the file it read.
LoadBifResult(kind, exc, bif, cache, opened, steps) ==
  [kind |-> kind, exc |-> exc, bif |-> bif, cache |-> cache, opened |-> opened,
   steps |-> steps]

\* Variant of OpenBif that caches the segment with its buffer consumed.
OpenBif_consuming(index, l) ==
  IF l.kind = "error"
  THEN LoadBifResult("error", l.exc, None, bif_cache, TRUE, l.steps)
  ELSE LoadBifResult("ok", "", l.obj,
                     [i \in DOMAIN bif_cache \cup {index} |->
                        IF i = index THEN [l.obj EXCEPT !.data = <<>>] ELSE bif_cache[i]],
                     TRUE, l.steps)

OpenBif(index, l) ==
  IF l.kind = "error"
  THEN LoadBifResult("error", l.exc, None, bif_cache, TRUE, l.steps)
  ELSE LoadBifResult("ok", "", l.obj,
                     [i \in DOMAIN bif_cache \cup {index} |->
                        IF i = index THEN l.obj ELSE bif_cache[i]],
                     TRUE, l.steps)

\* Variant of _load_bif that enters the index in the cache before it looks
\* for the file.
_load_bif_eager(index) ==
  IF index \in DOMAIN bif_cache
    THEN LoadBifResult("ok", "", bif_cache[index], bif_cache, FALSE, <<>>)
  ELSE IF key = None
    THEN LoadBifResult("error", "AttributeError", None, bif_cache, FALSE, <<>>)
  ELSE IF index >= Len(key.file_table)
    THEN LoadBifResult("error", "IndexError", None, bif_cache, FALSE, <<>>)
  ELSE IF ~BifExists(key.file_table[index + 1])
    THEN LoadBifResult("error", "FileNotFoundError", None,
                       [i \in DOMAIN bif_cache \cup {index} |->
                          IF i = index THEN None ELSE bif_cache[i]],
                       FALSE, <<>>)
  ELSE OpenBif(index, BifLoad(world.bifs[key.file_table[index + 1]]))

\* Variant of _load_bif that does not consult the cache.
_load_bif_reopen(index) ==
  IF key = None
    THEN LoadBifResult("error", "AttributeError", None, bif_cache, FALSE, <<>>)
  ELSE IF index >= Len(key.file_table)
    THEN LoadBifResult("error", "IndexError", None, bif_cache, FALSE, <<>>)
  ELSE IF ~BifExists(key.file_table[index + 1])
    THEN LoadBifResult("error", "FileNotFoundError", None, bif_cache, FALSE, <<>>)
  ELSE OpenBif(index, BifLoad(world.bifs[key.file_table[index + 1]]))

_load_bif(index) ==
  IF index \in DOMAIN bif_cache
    THEN LoadBifResult("ok", "", bif_cache[index], bif_cache, FALSE, <<>>)
  ELSE IF key = None
    THEN LoadBifResult("error", "AttributeError", None, bif_cache, FALSE, <<>>)
  ELSE IF index >= Len(key.file_table)
    THEN LoadBifResult("error", "IndexError", None, bif_cache, FALSE, <<>>)
  ELSE IF ~BifExists(key.file_table[index + 1])
    THEN LoadBifResult("error", "FileNotFoundError", None, bif_cache, FALSE, <<>>)
  ELSE OpenBif(index, BifLoad(world.bifs[key.file_table[index + 1]]))

\* The result of an extraction: the bytes or the exception; which table
\* served it; the segment cache afterwards; whether a segment was opened.
Extracted(value, slot, lb) ==
  [kind |-> "ok", exc |-> "", value |-> value, slot |-> slot,
   cache |-> lb.cache, opened |-> lb.opened, steps |-> lb.steps]
ExtractFailed(exc, lb) ==
  [kind |-> "error", exc |-> exc, value |-> <<>>, slot |-> "none",
   cache |-> lb.cache, opened |-> lb.opened, steps |-> lb.steps]

NoLoad == [cache |-> bif_cache, opened |-> FALSE, steps |-> <<>>]

\* Variant of ResolveSlot that tries the fixed table first.
ResolveSlot_fixed_first(entry, lb) ==
  IF lb.kind = "error" THEN ExtractFailed(lb.exc, lb)
  ELSE IF lb.bif.fixed_resources # <<>>
          /\ entry.FixedIndex < Len(lb.bif.fixed_resources)
    THEN Extracted(get_fixed_resource_data(lb.bif, entry.FixedIndex), "fixed", lb)
  ELSE IF entry.ResourceIndex < Len(lb.bif.variable_resources)
    THEN Extracted(get_variable_resource_data(lb.bif, entry.ResourceIndex),
                   "variable", lb)
  ELSE ExtractFailed("IndexError", lb)

\* The slot resolution of extract_entry, on the segment loaded as lb
ResolveSlot(entry, lb) ==
  IF lb.kind = "error" THEN ExtractFailed(lb.exc, lb)
  ELSE IF entry.ResourceIndex < Len(lb.bif.variable_resources)
    THEN Extracted(get_variable_resource_data(lb.bif, entry.ResourceIndex),
                   "variable", lb)
  ELSE IF lb.bif.fixed_resources # <<>>
          /\ entry.FixedIndex < Len(lb.bif.fixed_resources)
    THEN Extracted(get_fixed_resource_data(lb.bif, entry.FixedIndex), "fixed", lb)
  ELSE ExtractFailed("IndexError", lb)

\* ResourceManager.extract_entry
extract_entry(entry) ==
  IF erf # None THEN Extracted(archive_extract_entry(erf, entry), "flat", NoLoad)
  ELSE ResolveSlot(entry, _load_bif(entry.BIFIndex))

\* ------------------------------------------------------------------------
\* TextureLookup: the fallback resolver
\*
\* A supplementary container is named by a number: PatchPath is patch.erf,
\* a positive number n is the n-th file name of TexturePacks/*.erf in
\* sorted order.
\* ------------------------------------------------------------------------

ALLOWED_TEXTURE_TYPES == {3007, 2007, 2033}

\* The order in which CPython iterates the set literal above.
AllowedTypesOrder == <<3007, 2033, 2007>>

PatchPath == 0

\* sorted(...) of a set of numbers
RECURSIVE SortedSeq(_)
SortedSeq(S) ==
  IF S = {} THEN <<>>
  ELSE LET m == CHOOSE x \in S : \A y \in S : x <= y
       IN <<m>> \o SortedSeq(S \ {m})

\* TextureLookup._collect_texturepack_erfs
_collect_texturepack_erfs ==
  IF world.texdir = "absent" THEN <<>> ELSE SortedSeq(DOMAIN world.texpacks)

\* patch_erf_path.exists()
PatchExists == world.patch # Absent

FileAt(path) == IF path = PatchPath THEN world.patch ELSE world.texpacks[path]

\* TextureLookup._load_erf on the container cache `cache`
_load_erf(path, cache) ==
  IF path \in DOMAIN cache
    THEN [kind |-> "ok", erf |-> cache[path], cache |-> cache, parsed |-> <<>>]
  ELSE LET l == ErfLoad(FileAt(path)) IN
    IF l.kind = "error"
    THEN [kind |-> "error", erf |-> None, cache |-> cache, parsed |-> <<path>>]
    ELSE [kind |-> "ok", erf |-> l.obj,
          cache |-> [q \in DOMAIN cache \cup {path} |->
                       IF q = path THEN l.obj ELSE cache[q]],
          parsed |-> <<path>>]

\* str.strip("_")
RECURSIVE LStripUnderscore(_)
LStripUnderscore(s) ==
  IF s # <<>> /\ Head(s) = "_" THEN LStripUnderscore(Tail(s)) ELSE s

\* str.rstrip(chars)
RECURSIVE RStrip(_, _)
RStrip(s, chars) ==
  IF s # <<>> /\ s[Len(s)] \in chars THEN RStrip(SubSeq(s, 1, Len(s) - 1), chars)
  ELSE s

StripUnderscore(s) == RStrip(LStripUnderscore(s), {"_"})

\* add(s) of _substring_candidates
AddCandidate(candidates, s) ==
  LET t == StripUnderscore(s)
  IN IF Len(t) >= 3 /\ t \notin Range(candidates) THEN Append(candidates, t)
     ELSE candidates

\* "_".join(name.split("_")[:-1]): the name before its last underscore
BeforeLastUnderscore(s) ==
  LET k == CHOOSE i \in 1..Len(s) :
             s[i] = "_" /\ \A j \in (i + 1)..Len(s) : s[j] # "_"
  IN SubSeq(s, 1, k - 1)

RECURSIVE SegmentCandidates(_, _)
SegmentCandidates(candidates, s) ==
  IF "_" \notin Range(s) THEN candidates
  ELSE SegmentCandidates(AddCandidate(candidates, BeforeLastUnderscore(s)),
                         BeforeLastUnderscore(s))

\* TextureLookup._substring_candidates
_substring_candidates(resref) ==
  LET name == Lower(resref)
      c1 == AddCandidate(<<>>, name)
      c2 == AddCandidate(c1, RStrip(name, Digits))
  IN SegmentCandidates(c2, name)

\* sub in name
IsSubstring(sub, name) ==
  \E i \in 0..(Len(name) - Len(sub)) : SubSeq(name, i + 1, i + Len(sub)) = sub

MaxOf(S) == IF S = {} THEN 0 ELSE CHOOSE x \in S : \A y \in S : y <= x

\* max((len(sub) for sub in substrings if sub and sub in name), default=0)
Score(substrings, entry) ==
  MaxOf({ Len(substrings[i]) : i \in
          { j \in 1..Len(substrings) :
              substrings[j] # <<>> /\ IsSubstring(substrings[j], Lower(entry.ResRef)) } })

\* The fuzzy scan of one container: the first entry, in table order, of the
\* highest positive score among the texture-typed entries.
BestMatch(a, substrings) ==
  LET cand == { i \in 1..Len(a.entries) :
                  /\ a.entries[i].ResType \in ALLOWED_TEXTURE_TYPES
                  /\ Score(substrings, a.entries[i]) > 0 }
  IN IF cand = {} THEN NotFound
     ELSE Found(a.entries[CHOOSE i \in cand :
                  /\ \A j \in cand :
                       Score(substrings, a.entries[j]) <= Score(substrings, a.entries[i])
                  /\ \A j \in cand :
                       j < i => Score(substrings, a.entries[j])
                                  < Score(substrings, a.entries[i])])

\* The exact scan of one container: get_entry under each allowed type.
RECURSIVE ExactMatch(_, _, _)
ExactMatch(a, resref, types) ==
  IF types = <<>> THEN NotFound
  ELSE LET r == erf_get_entry(a, resref, Head(types))
       IN IF r.kind = "found" THEN r ELSE ExactMatch(a, resref, Tail(types))

\* TextureLookup._find_in_erfs, from the container cache `cache`; `parsed`
\* accumulates the containers ERF(path) was called on.
RECURSIVE _find_in_erfs(_, _, _, _, _)
_find_in_erfs(paths, resref, allow_partial, cache, parsed) ==
  IF paths = <<>>
    THEN [found |-> FALSE, entry |-> None, erf |-> None, path |-> PatchPath,
          cache |-> cache, parsed |-> parsed]
  ELSE LET l == _load_erf(Head(paths), cache)
           m == IF l.kind = "error" THEN NotFound
                ELSE IF allow_partial
                  THEN BestMatch(l.erf, _substring_candidates(resref))
                ELSE ExactMatch(l.erf, resref, AllowedTypesOrder)
       IN IF m.kind = "found"
          THEN [found |-> TRUE, entry |-> m.entry, erf |-> l.erf, path |-> Head(paths),
                cache |-> l.cache, parsed |-> parsed \o l.parsed]
          ELSE _find_in_erfs(Tail(paths), resref, allow_partial, l.cache,
                             parsed \o l.parsed)

\* TPCToPNG.tpc_bytes_to_png_bytes: the decoder is the pykotor library; whether
\* it accepts this installation's texture blobs is a fact of the world.  The
\* PNG is the blob behind the PNG signature's first bytes.
tpc_bytes_to_png_bytes(data) ==
  IF world.tpc_ok /\ data # <<>>
  THEN [kind |-> "ok", bytes |-> <<137, 80, 78, 71>> \o data]
  ELSE [kind |-> "error", bytes |-> <<>>]

Miss == [hit |-> FALSE, data |-> <<>>, mime |-> "", name |-> <<>>]
Hit(data, mime, name) == [hit |-> TRUE, data |-> data, mime |-> mime, name |-> name]

\* Variant of _convert_result that keeps the PNG name and mime when
\* decoding fails.
_convert_result_keep_png(entry, a) ==
  LET data == archive_extract_entry(a, entry)
      ext  == ExtensionOrBin(entry.ResType)
      png  == tpc_bytes_to_png_bytes(data)
  IN IF entry.ResType \in {2007, 3007}
       THEN Hit(IF png.kind = "ok" THEN png.bytes ELSE data, "image/png",
                entry.ResRef \o <<".","p","n","g">>)
     ELSE IF entry.ResType = 2033
       THEN Hit(data, "image/vnd.ms-dds", entry.ResRef \o <<".","d","d","s">>)
     ELSE Hit(data, "application/octet-stream", entry.ResRef \o <<".">> \o ext)

\* TextureLookup._convert_result
_convert_result(entry, a) ==
  LET data == archive_extract_entry(a, entry)
      ext  == ExtensionOrBin(entry.ResType)
      png  == tpc_bytes_to_png_bytes(data)
  IN IF entry.ResType \in {2007, 3007}
       THEN IF png.kind = "ok"
            THEN Hit(png.bytes, "image/png", entry.ResRef \o <<".","p","n","g">>)
            ELSE Hit(data, "application/octet-stream",
                     entry.ResRef \o <<".","t","p","c">>)
     ELSE IF entry.ResType = 2033
       THEN Hit(data, "image/vnd.ms-dds", entry.ResRef \o <<".","d","d","s">>)
     ELSE Hit(data, "application/octet-stream", entry.ResRef \o <<".">> \o ext)

\* Variant of the end of fetch_texture that caches only the hits.
FetchFinish_hits_only(tl, k, s, steps) ==
  LET result == IF s.found THEN _convert_result(s.entry, s.erf) ELSE Miss
  IN [result |-> result, found |-> s.found, entry |-> s.entry, path |-> s.path,
      tl |-> [tl EXCEPT !.erf_cache = s.cache,
                        !.result_cache =
                           IF s.found
                           THEN [q \in DOMAIN tl.result_cache \cup {k} |->
                                   IF q = k THEN result ELSE tl.result_cache[q]]
                           ELSE tl.result_cache],
      steps |-> steps, parsed |-> s.parsed]

\* The end of fetch_texture: convert the entry found, cache the result.
FetchFinish(tl, k, s, steps) ==
  LET result == IF s.found THEN _convert_result(s.entry, s.erf) ELSE Miss
  IN [result |-> result, found |-> s.found, entry |-> s.entry, path |-> s.path,
      tl |-> [tl EXCEPT !.erf_cache = s.cache,
                        !.result_cache =
                           [q \in DOMAIN tl.result_cache \cup {k} |->
                              IF q = k THEN result ELSE tl.result_cache[q]]],
      steps |-> steps, parsed |-> s.parsed]

\* Step 4: fuzzy match in patch.erf, after the outcome s of steps 1..3
FetchStep4(tl, resref, s, steps) ==
  IF ~s.found /\ PatchExists
  THEN FetchFinish(tl, Lower(resref),
                   _find_in_erfs(<<PatchPath>>, resref, TRUE, s.cache, s.parsed),
                   Append(steps, "fuzzy_patch"))
  ELSE FetchFinish(tl, Lower(resref), s, steps)

\* Step 3: fuzzy match in the texture packs
FetchStep3(tl, resref, s, steps) ==
  IF ~s.found
  THEN FetchStep4(tl, resref,
                  _find_in_erfs(tl.texturepack_erfs, resref, TRUE, s.cache, s.parsed),
                  Append(steps, "fuzzy_packs"))
  ELSE FetchStep4(tl, resref, s, steps)

\* Variant of step 2 that goes to the fuzzy steps without the exact match in
\* patch.erf.
FetchStep2_no_exact_patch(tl, resref, s, steps) ==
  FetchStep3(tl, resref, s, steps)

\* Step 2: exact match in patch.erf
FetchStep2(tl, resref, s, steps) ==
  IF ~s.found /\ PatchExists
  THEN FetchStep3(tl, resref,
                  _find_in_erfs(<<PatchPath>>, resref, FALSE, s.cache, s.parsed),
                  Append(steps, "exact_patch"))
  ELSE FetchStep3(tl, resref, s, steps)

\* TextureLookup.fetch_texture on the resolver object tl: the result, the
\* object afterwards, the steps run ("cache", or those of the four that
\* ran) and the containers parsed.
fetch_texture(tl, resref) ==
  IF Lower(resref) \in DOMAIN tl.result_cache
  THEN [result |-> tl.result_cache[Lower(resref)], found |-> FALSE, entry |-> None,
        path |-> PatchPath, tl |-> tl, steps |-> <<"cache">>, parsed |-> <<>>]
  ELSE FetchStep2(tl, resref,
                  _find_in_erfs(tl.texturepack_erfs, resref, FALSE, tl.erf_cache, <<>>),
                  <<"exact_packs">>)

TL_None  == [state |-> "None"]
TL_False == [state |-> "False"]

\* TextureLookup.__init__: raises when the TexturePacks directory cannot be
\* listed.
NewTextureLookup ==
  [state |-> "object", erf_cache |-> EmptyMap, result_cache |-> EmptyMap,
   texturepack_erfs |-> _collect_texturepack_erfs]

\* Path(resref).name
RECURSIVE AfterLastSlash(_)
AfterLastSlash(s) ==
  IF "/" \notin Range(s) THEN s ELSE AfterLastSlash(Tail(s))

\* Path(resref).stem
PathStem(resref) ==
  LET name == AfterLastSlash(RStrip(resref, {"/"}))
      dots == { i \in 1..Len(name) : name[i] = "." }
      last == MaxOf(dots)
  IN IF dots # {} /\ 1 < last /\ last < Len(name) THEN SubSeq(name, 1, last - 1)
     ELSE name

\* Variant that builds a resolver on every call.
InitTextureLookup_every_call ==
  IF world.texdir = "error" THEN TL_False ELSE NewTextureLookup

\* The handle _fetch_texture_bytes works on: a None handle is initialised.
InitTextureLookup ==
  IF texture_lookup = TL_None
  THEN IF world.texdir = "error" THEN TL_False ELSE NewTextureLookup
  ELSE texture_lookup

FetchVia(tl0, resref, init) ==
  IF tl0 = TL_False
  THEN [result |-> Miss, found |-> FALSE, entry |-> None, path |-> PatchPath,
        tl |-> tl0, steps |-> <<>>, parsed |-> <<>>, init |-> init]
  ELSE [init |-> init] @@ fetch_texture(tl0, PathStem(resref))

\* ResourceManager._fetch_texture_bytes: the result, the handle afterwards,
\* the steps of fetch_texture that ran, the containers parsed, and whether
\* the handle was initialised.
_fetch_texture_bytes(resref) ==
  IF ~Truthy(key_path)
    THEN [result |-> Miss, found |-> FALSE, entry |-> None, path |-> PatchPath,
          tl |-> texture_lookup, steps |-> <<>>, parsed |-> <<>>, init |-> FALSE]
  ELSE FetchVia(InitTextureLookup, resref, texture_lookup = TL_None)

ResrefPrimary(g, x) ==
  [kind |-> x.kind, exc |-> x.exc, value |-> x.value,
   calls |-> <<"get_resource_entry", "extract_entry">>,
   find |-> g.kind, entry |-> g.entry, cache |-> x.cache, opened |-> x.opened,
   tl |-> texture_lookup, fetch |-> Miss, parsed |-> <<>>]

ResrefFallback(g, f) ==
  IF f.result.hit
  THEN [kind |-> "ok", exc |-> "", value |-> f.result.data,
        calls |-> <<"get_resource_entry", "_fetch_texture_bytes">>,
        find |-> g.kind, entry |-> g.entry, cache |-> bif_cache, opened |-> FALSE,
        tl |-> f.tl, fetch |-> f.result, parsed |-> f.parsed]
  ELSE [kind |-> "error", exc |-> "KeyError", value |-> <<>>,
        calls |-> <<"get_resource_entry", "_fetch_texture_bytes", "raise">>,
        find |-> g.kind, entry |-> g.entry, cache |-> bif_cache, opened |-> FALSE,
        tl |-> f.tl, fetch |-> f.result, parsed |-> f.parsed]

\* Variant of ResrefAfterFind that raises as soon as find yields no entry.
ResrefAfterFind_no_fallback(resref, g) ==
  IF g.kind = "found" THEN ResrefPrimary(g, extract_entry(g.entry))
  ELSE [kind |-> "error", exc |-> "KeyError", value |-> <<>>,
        calls |-> <<"get_resource_entry", "raise">>,
        find |-> g.kind, entry |-> g.entry, cache |-> bif_cache, opened |-> FALSE,
        tl |-> texture_lookup, fetch |-> Miss, parsed |-> <<>>]

ResrefAfterFind(resref, g) ==
  IF g.kind = "found" THEN ResrefPrimary(g, extract_entry(g.entry))
  ELSE ResrefFallback(g, _fetch_texture_bytes(resref))

\* ResourceManager.extract_resref: the bytes or the exception, the calls made
\* in order, and the state afterwards.
extract_resref(resref, resource_type) ==
  ResrefAfterFind(resref, get_resource_entry(resref, resource_type))

\* ------------------------------------------------------------------------
\* Export
\*
\* The export folder is a map from file names to bytes.  A write fails when
\* the folder is read-only or when the name is that of a directory in it.
\* ------------------------------------------------------------------------

\* os.makedirs(out_folder, exist_ok=True); open(path, "wb"); f.write(data)
WriteFile(files, name, data) ==
  IF world.out_readonly
    THEN [kind |-> "error", exc |-> "PermissionError", files |-> files]
  ELSE IF name \in world.out_dirs
    THEN [kind |-> "error", exc |-> "IsADirectoryError", files |-> files]
  ELSE [kind |-> "ok", exc |-> "",
        files |-> [n \in DOMAIN files \cup {name} |-> IF n = name THEN data ELSE files[n]]]

\* ResourceTypeInfo.get_extension
get_extension(t) == IF t \in DOMAIN TypeTable THEN TypeTable[t] ELSE None

\* f"{ext}" of an extension or of None
FormatExt(ext) == IF ext = None THEN <<"N","o","n","e">> ELSE ext

\* Path(name).suffix
PathSuffix(name) ==
  SubSeq(AfterLastSlash(RStrip(name, {"/"})),
         Len(PathStem(name)) + 1, Len(AfterLastSlash(RStrip(name, {"/"}))))

\* ERF.export_entry on the ERF object a
erf_export_entry(a, entry) ==
  LET name == sanitize_resref(entry.ResRef) \o <<".">> \o FormatExt(get_extension(entry.ResType))
      w == WriteFile(out_files, name, archive_extract_entry(a, entry))
  IN [kind |-> w.kind, exc |-> w.exc, name |-> name, files |-> w.files,
      value |-> archive_extract_entry(a, entry)]

\* RIM.export_entry on the RIM object a
rim_export_entry(a, entry) ==
  LET name == entry.ResRef \o <<".">> \o ExtensionOrBin(entry.ResType)
      w == WriteFile(out_files, name, archive_extract_entry(a, entry))
  IN [kind |-> w.kind, exc |-> w.exc, name |-> name, files |-> w.files,
      value |-> archive_extract_entry(a, entry)]

\* Variant of the try block that writes a compressed texture decoded.
ExportPrimary_decoding(entry, x) ==
  LET name == sanitize_resref(entry.ResRef) \o <<".">> \o ExtensionOrBin(EntryType(entry))
      png  == tpc_bytes_to_png_bytes(x.value)
      out  == IF EntryType(entry) \in {2007, 3007} /\ png.kind = "ok" THEN png.bytes
              ELSE x.value
      w == WriteFile(out_files, name, out)
  IN [kind |-> IF x.kind = "error" THEN "error" ELSE w.kind,
      exc |-> IF x.kind = "error" THEN x.exc ELSE w.exc,
      extract |-> x.kind, extract_exc |-> x.exc, value |-> x.value, name |-> name,
      files |-> IF x.kind = "error" THEN out_files ELSE w.files,
      cache |-> x.cache, opened |-> x.opened]

\* The try block of ResourceManager.export_entry: extract, then write
ExportPrimary(entry, x) ==
  LET name == sanitize_resref(entry.ResRef) \o <<".">> \o ExtensionOrBin(EntryType(entry))
      w == WriteFile(out_files, name, x.value)
  IN [kind |-> IF x.kind = "error" THEN "error" ELSE w.kind,
      exc |-> IF x.kind = "error" THEN x.exc ELSE w.exc,
      extract |-> x.kind, extract_exc |-> x.exc, value |-> x.value, name |-> name,
      files |-> IF x.kind = "error" THEN out_files ELSE w.files,
      cache |-> x.cache, opened |-> x.opened]

\* The outcome of an export: the file name returned or the exception, the
\* export folder afterwards, which path wrote the file, the primary error,
\* and the state afterwards.
ExportOutcome(kind, exc, name, files, wrote, p, g, entry, f, calls) ==
  [kind |-> kind, exc |-> exc, name |-> name, files |-> files, wrote |-> wrote,
   primary |-> p.exc, extract |-> p.extract, extract_exc |-> p.extract_exc,
   value |-> p.value,
   cache |-> p.cache, opened |-> p.opened, find |-> g.kind, find_exc |-> g.exc,
   entry |-> entry, tl |-> f.tl, fetch |-> f.result, parsed |-> f.parsed,
   calls |-> calls]

NoFetch == [result |-> Miss, tl |-> texture_lookup, parsed |-> <<>>]

\* The rest of ResourceManager.export_entry after the try block failed with
\* p: the fallback f, its write, or the primary error again.
ExportEntryFallback(entry, p, g, f) ==
  IF f.result.hit
  THEN LET target == sanitize_resref(PathStem(f.result.name)) \o PathSuffix(f.result.name)
           w == WriteFile(p.files, target, f.result.data)
       IN ExportOutcome(w.kind, w.exc, target, w.files,
                        IF w.kind = "ok" THEN "fallback" ELSE "none", p, g, entry, f,
                        <<"extract_entry", "_fetch_texture_bytes", "write">>)
  ELSE ExportOutcome("error", p.exc, <<>>, p.files, "none", p, g, entry, f,
                     <<"extract_entry", "_fetch_texture_bytes", "raise">>)

ExportEntryAfterTry(entry, p, g) ==
  IF p.kind = "ok"
  THEN ExportOutcome("ok", "", p.name, p.files, "primary", p, g, entry, NoFetch,
                     <<"extract_entry", "write">>)
  ELSE ExportEntryFallback(entry, p, g, _fetch_texture_bytes(entry.ResRef))

\* ResourceManager.export_entry
export_entry(entry) ==
  ExportEntryAfterTry(entry, ExportPrimary(entry, extract_entry(entry)), Found(entry))

NoPrimary ==
  [exc |-> "", extract |-> "none", extract_exc |-> "", value |-> <<>>, files |-> out_files,
   cache |-> bif_cache, opened |-> FALSE]

\* The rest of ResourceManager.export_resource when the lookup g yields no
\* entry: the fallback f and its write, or the unknown-resource error.
ExportResourceFallback(g, f) ==
  IF f.result.hit
  THEN LET w == WriteFile(out_files, f.result.name, f.result.data)
       IN ExportOutcome(w.kind, w.exc, f.result.name, w.files,
                        IF w.kind = "ok" THEN "fallback" ELSE "none", NoPrimary, g, None, f,
                        <<"get_resource_entry", "_fetch_texture_bytes", "write">>)
  ELSE ExportOutcome("error", "KeyError", <<>>, out_files, "none", NoPrimary, g, None, f,
                     <<"get_resource_entry", "_fetch_texture_bytes", "raise">>)

ExportResourceAfterFind(resref, g) ==
  IF g.kind = "found"
  THEN ExportEntryAfterTry(g.entry, ExportPrimary(g.entry, extract_entry(g.entry)), g)
  ELSE ExportResourceFallback(g, _fetch_texture_bytes(resref))

\* ResourceManager.export_resource
export_resource(resref, resource_type) ==
  ExportResourceAfterFind(resref, get_resource_entry(resref, resource_type))

\* ------------------------------------------------------------------------
\* ResourceManager.__init__
\* ------------------------------------------------------------------------

\* open(path, "rb") then the decoder's constructor
OpenKey(p) ==
  IF p.chars = world.key_path /\ world.key # Absent THEN KeyLoad(world.key)
  ELSE LoadFailed("FileNotFoundError", <<>>)

OpenFlat(p) ==
  IF p.chars # world.flat_path \/ world.flat = Absent
    THEN LoadFailed("FileNotFoundError", <<>>)
  ELSE IF EndsWith(Lower(p.chars), DOT_RIM) THEN RimLoad(world.flat)
  ELSE ErfLoad(world.flat)

InitFailed(exc, steps) ==
  [kind |-> "error", exc |-> exc, steps |-> steps, key |-> None, erf |-> None,
   by_resref |-> EmptyMap, by_resid |-> EmptyMap, by_entry_index |-> EmptyMap]

\* ResourceManager.__init__(key_path, erf_path)
rm_init(kp, ep) ==
  IF kp.isNone = ep.isNone THEN InitFailed("ValueError", <<>>)
  ELSE LET kl == IF Truthy(kp) THEN OpenKey(kp) ELSE Loaded(None, <<>>) IN
    IF kl.kind = "error" THEN InitFailed(kl.exc, kl.steps)
    ELSE LET el == IF Truthy(ep) THEN OpenFlat(ep) ELSE Loaded(None, <<>>) IN
      IF el.kind = "error" THEN InitFailed(el.exc, el.steps)
      ELSE [ kind |-> "ok", exc |-> "", steps |-> kl.steps \o el.steps,
             key |-> kl.obj, erf |-> el.obj,
             by_resref |-> IF kl.obj # None
                           THEN BuildIndex(kl.obj.key_table, EmptyMap) ELSE EmptyMap,
             by_resid |-> IF kl.obj # None
                          THEN DictByResID(kl.obj.key_table) ELSE EmptyMap,
             by_entry_index |-> IF kl.obj # None
                                THEN DictByEntryIndex(kl.obj.key_table) ELSE EmptyMap ]

\* ------------------------------------------------------------------------
\* Operations
\* ------------------------------------------------------------------------

MaxOpens == 2

Count(f, k) == IF k \in DOMAIN f THEN f[k] ELSE 0

Bump(f, k) == [x \in DOMAIN f \cup {k} |-> IF x = k THEN Count(f, k) + 1 ELSE f[x]]

\* f with the count of every element of the sequence ks raised, once per
\* occurrence
RECURSIVE BumpAll(_, _)
BumpAll(f, ks) == IF ks = <<>> THEN f ELSE BumpAll(Bump(f, Head(ks)), Tail(ks))

\* The entries a caller can hold: those of the backend's table.
BackendEntries ==
  IF erf # None THEN Range(erf.entries)
  ELSE IF key # None THEN Range(key.key_table)
  ELSE {}

QueryTypes == world.qtypes \cup {NoType}

\* rm = ResourceManager(key_path=kp, erf_path=ep)
Construct(kp, ep) ==
  /\ ~constructed
  /\ \E r \in {rm_init(kp, ep)} :
     /\ constructed' = (r.kind = "ok")
     /\ key_path' = IF r.kind = "ok" THEN kp ELSE key_path
     /\ erf_path' = IF r.kind = "ok" THEN ep ELSE erf_path
     /\ key' = r.key
     /\ erf' = r.erf
     /\ by_resref' = r.by_resref
     /\ by_resid' = r.by_resid
     /\ by_entry_index' = r.by_entry_index
     /\ ret' = [op |-> "init", kp |-> kp, ep |-> ep, kind |-> r.kind, exc |-> r.exc,
                steps |-> r.steps]
  /\ UNCHANGED << world, bif_cache, texture_lookup, bif_opens, missing, out_files,
                  erf_parses >>

\* rm.get_resource_entry(resref, resource_type)
GetResourceEntry(resref, t) ==
  /\ constructed
  /\ \E g \in {get_resource_entry(resref, t)} :
     ret' = [op |-> "get_resource_entry", resref |-> resref, type |-> t,
             kind |-> g.kind, exc |-> g.exc, entry |-> g.entry]
  /\ UNCHANGED << world, constructed, key_path, erf_path, key, erf, bif_cache,
                  by_resref, by_resid, by_entry_index, texture_lookup, bif_opens,
                  missing, out_files, erf_parses >>

\* rm.erf.get_entry(resref, res_type), on an ERF (RIM has no get_entry)
ErfGetEntry(resref, t) ==
  /\ constructed
  /\ erf # None
  /\ erf.class = "ERF"
  /\ \E g \in {erf_get_entry(erf, resref, t)} :
     ret' = [op |-> "erf.get_entry", resref |-> resref, type |-> t,
             kind |-> g.kind, exc |-> g.exc, entry |-> g.entry]
  /\ UNCHANGED << world, constructed, key_path, erf_path, key, erf, bif_cache,
                  by_resref, by_resid, by_entry_index, texture_lookup, bif_opens,
                  missing, out_files, erf_parses >>

\* rm.extract_entry(entry)
ExtractEntry(entry) ==
  /\ constructed
  /\ entry \in BackendEntries
  /\ \E x \in {extract_entry(entry)} :
     /\ x.opened => Count(bif_opens, entry.BIFIndex) < MaxOpens
     /\ bif_cache' = x.cache
     /\ bif_opens' = IF x.opened THEN Bump(bif_opens, entry.BIFIndex) ELSE bif_opens
     /\ missing' = IF x.exc = "FileNotFoundError"
                    THEN missing \cup {entry.BIFIndex} ELSE missing
     /\ ret' = [op |-> "extract_entry", entry |-> entry, kind |-> x.kind,
                exc |-> x.exc, value |-> x.value, slot |-> x.slot,
                opened |-> x.opened, steps |-> x.steps]
  /\ UNCHANGED << world, constructed, key_path, erf_path, key, erf,
                  by_resref, by_resid, by_entry_index, texture_lookup, out_files,
                  erf_parses >>

\* rm.extract_resref(resref, resource_type)
ExtractResref(resref, t) ==
  /\ constructed
  /\ \E r \in {extract_resref(resref, t)} :
     /\ r.opened => Count(bif_opens, r.entry.BIFIndex) < MaxOpens
     /\ bif_cache' = r.cache
     /\ bif_opens' = IF r.opened THEN Bump(bif_opens, r.entry.BIFIndex) ELSE bif_opens
     /\ missing' = IF r.exc = "FileNotFoundError"
                    THEN missing \cup {r.entry.BIFIndex} ELSE missing
     /\ texture_lookup' = r.tl
     /\ ret' = [op |-> "extract_resref", resref |-> resref, type |-> t,
                kind |-> r.kind, exc |-> r.exc, value |-> r.value,
                calls |-> r.calls, find |-> r.find, entry |-> r.entry,
                fetch |-> r.fetch, opened |-> r.opened, parsed |-> r.parsed]
     /\ erf_parses' = BumpAll(erf_parses, r.parsed)
  /\ UNCHANGED << world, constructed, key_path, erf_path, key, erf,
                  by_resref, by_resid, by_entry_index, out_files >>

\* The state an export leaves behind
ExportEffect(r, op, resref, t) ==
  /\ r.opened => Count(bif_opens, r.entry.BIFIndex) < MaxOpens
  /\ bif_cache' = r.cache
  /\ bif_opens' = IF r.opened THEN Bump(bif_opens, r.entry.BIFIndex) ELSE bif_opens
  /\ missing' = IF r.extract_exc = "FileNotFoundError"
                 THEN missing \cup {r.entry.BIFIndex} ELSE missing
  /\ texture_lookup' = r.tl
  /\ erf_parses' = BumpAll(erf_parses, r.parsed)
  /\ out_files' = r.files
  /\ ret' = [op |-> op, resref |-> resref, type |-> t, kind |-> r.kind, exc |-> r.exc,
             name |-> r.name, wrote |-> r.wrote, primary |-> r.primary,
             extract |-> r.extract, value |-> r.value, find |-> r.find,
             find_exc |-> r.find_exc, entry |-> r.entry, fetch |-> r.fetch,
             calls |-> r.calls, parsed |-> r.parsed]
  /\ UNCHANGED << world, constructed, key_path, erf_path, key, erf,
                  by_resref, by_resid, by_entry_index >>

\* rm.export_entry(entry, out_folder)
ExportEntry(entry) ==
  /\ constructed
  /\ entry \in BackendEntries
  /\ \E r \in {export_entry(entry)} : ExportEffect(r, "export_entry", entry.ResRef, NoType)

\* rm.export_resource(resref, out_folder, resource_type)
ExportResource(resref, t) ==
  /\ constructed
  /\ \E r \in {export_resource(resref, t)} : ExportEffect(r, "export_resource", resref, t)

\* The state an export by a container decoder leaves behind
DecoderExportEffect(r, op, entry) ==
  /\ out_files' = r.files
  /\ ret' = [op |-> op, entry |-> entry, kind |-> r.kind, exc |-> r.exc,
             name |-> r.name, value |-> r.value]
  /\ UNCHANGED << world, constructed, key_path, erf_path, key, erf, bif_cache,
                  by_resref, by_resid, by_entry_index, texture_lookup, bif_opens,
                  missing, erf_parses >>

\* rm.erf.export_entry(entry, out_folder), on an ERF
ErfExportEntry(entry) ==
  /\ constructed
  /\ erf # None
  /\ erf.class = "ERF"
  /\ entry \in Range(erf.entries)
  /\ \E r \in {erf_export_entry(erf, entry)} : DecoderExportEffect(r, "erf.export_entry", entry)

\* rm.erf.export_entry(entry, out_folder), on a RIM
RimExportEntry(entry) ==
  /\ constructed
  /\ erf # None
  /\ erf.class = "RIM"
  /\ entry \in Range(erf.entries)
  /\ \E r \in {rim_export_entry(erf, entry)} : DecoderExportEffect(r, "rim.export_entry", entry)

LookupUnchanged ==
  UNCHANGED << world, constructed, key_path, erf_path, key, erf, bif_cache,
               by_resref, by_resid, by_entry_index, texture_lookup, bif_opens,
               missing, out_files, erf_parses >>

\* rm.get_resource_entry_by_resid(resid)
GetResourceEntryByResid(resid) ==
  /\ constructed
  /\ ret' = [op |-> "get_resource_entry_by_resid", resid |-> resid,
             entry |-> get_resource_entry_by_resid(resid)]
  /\ LookupUnchanged

\* rm.get_resource_entry_by_index(entry_index)
GetResourceEntryByIndex(entry_index) ==
  /\ constructed
  /\ ret' = [op |-> "get_resource_entry_by_index", index |-> entry_index,
             entry |-> get_resource_entry_by_index(entry_index)]
  /\ LookupUnchanged

PathArgs(p) == { NonePath, PathOf(<<>>), PathOf(p) }

DoConstruct ==
  \E kp \in PathArgs(world.key_path), ep \in PathArgs(world.flat_path) : Construct(kp, ep)

DoGetResourceEntry ==
  \E n \in world.queries, t \in QueryTypes : GetResourceEntry(n, t)

DoErfGetEntry ==
  \E n \in world.queries, t \in QueryTypes : ErfGetEntry(n, t)

DoExtractEntry == \E e \in BackendEntries : ExtractEntry(e)

DoExtractResref ==
  \E n \in world.queries, t \in QueryTypes : ExtractResref(n, t)

DoExportEntry == \E e \in BackendEntries : ExportEntry(e)

DoExportResource ==
  \E n \in world.queries, t \in QueryTypes : ExportResource(n, t)

DoErfExportEntry == \E e \in BackendEntries : ErfExportEntry(e)

DoRimExportEntry == \E e \in BackendEntries : RimExportEntry(e)

NextExport ==
  \/ DoConstruct
  \/ DoExtractResref
  \/ DoExportEntry
  \/ DoExportResource
  \/ DoErfExportEntry
  \/ DoRimExportEntry

Next ==
  \/ DoConstruct
  \/ DoGetResourceEntry
  \/ DoErfGetEntry
  \/ DoExtractEntry
  \/ DoExtractResref

\* The state before construction, on the disk w.
InitOn(w) ==
  /\ world = w
  /\ constructed = FALSE
  /\ key_path = NonePath
  /\ erf_path = NonePath
  /\ key = None
  /\ erf = None
  /\ bif_cache = EmptyMap
  /\ by_resref = EmptyMap
  /\ by_resid = EmptyMap
  /\ by_entry_index = EmptyMap
  /\ texture_lookup = TL_None
  /\ bif_opens = EmptyMap
  /\ missing = {}
  /\ out_files = EmptyMap
  /\ erf_parses = EmptyMap
  /\ ret = [op |-> "none", kind |-> "ok", exc |-> ""]

\* ------------------------------------------------------------------------
\* The disks the engine is run on
\* ------------------------------------------------------------------------

MaxKeys == 2   \* records per table, where the table is varied
MaxSlot == 1   \* entries per segment table, and slot indexes, where varied
MaxBuf  == 3   \* buffer length; offsets and sizes go one past it

V1 == Sig("V","1"," "," ")

tex      == <<"t","e","x">>
TeX      == <<"T","e","X">>
texSlash == <<"t","e","/","x">>
texNul   == <<"t","e","x","NUL","q">>
m01      == <<"m","0","1">>
logo     == <<"l","o","g","o">>
zzz      == <<"z","z","z">>

KEY_PATH == <<"c","h","i","t","i","n",".","k","e","y">>
ERF_PATH == <<"m",".","e","r","f">>
RIM_PATH == <<"m",".","R","i","m">>

\* The bytes of a file: byte i (0-based) is seed + i.
Buffer(n, seed) == [i \in 1..n |-> seed + i - 1]

\* A packed identifier from its fields (var below 2^14)
Id(seg, fix, var) == seg * Pow2(20) + fix * Pow2(14) + var

KeyRec(name, type, id) == [ResRef |-> name, ResourceType |-> type, ResID |-> id]

KeyFile(sig, ver, names, table) ==
  [ class |-> "file", header_complete |-> TRUE, FileType |-> sig, Version |-> ver,
    BIFCount |-> Len(names), KeyCount |-> Len(table),
    file_table |-> names, key_table |-> table ]

VarRec(off, size) ==
  [ID |-> 0, Offset |-> off, FileSize |-> size, ResourceType |-> 2007]

FixRec(off, size) ==
  [ID |-> 0, Offset |-> off, PartCount |-> 1, FileSize |-> size, ResourceType |-> 2007]

BifFile(sig, ver, vt, ft, data) ==
  [ class |-> "file", header_complete |-> TRUE, FileType |-> sig, Version |-> ver,
    VariableResourceCount |-> Len(vt), FixedResourceCount |-> Len(ft),
    vtable |-> vt, ftable |-> ft, data |-> data ]

FlatRec(name, type, off, size) ==
  [ResRef |-> name, ResType |-> type, ResID |-> 0, Offset |-> off, Size |-> size]

\* An ERF file whose key list and resource list are those of `recs`
ErfFile(sig, ver, recs, data) ==
  [ class |-> "file", header_complete |-> TRUE, FileType |-> sig, Version |-> ver,
    LanguageCount |-> 0, strings |-> <<>>, EntryCount |-> Len(recs),
    key_list |-> recs, resource_list |-> recs, data |-> data ]

RimFile(sig, ver, recs, data) ==
  [ class |-> "file", header_complete |-> TRUE, FileType |-> sig, Version |-> ver,
    KeyCount |-> Len(recs), entries |-> recs, data |-> data ]

\* A file whose header declares one record more than the buffer holds
TruncatedTable(f) ==
  IF "KeyCount" \in DOMAIN f THEN [f EXCEPT !.KeyCount = @ + 1]
  ELSE IF "EntryCount" \in DOMAIN f THEN [f EXCEPT !.EntryCount = @ + 1]
  ELSE [f EXCEPT !.VariableResourceCount = @ + 1]

DefaultKey ==
  KeyFile(KEY_SIG, V1, <<"a.bif", "b.bif">>,
          << KeyRec(tex, 2007, Id(0, 0, 0)),
             KeyRec(m01, 2002, Id(1, 0, 0)),
             KeyRec(m01, 3008, Id(1, 0, 1)) >>)

BifA == BifFile(BIFF_SIG, V1, <<VarRec(0, 2)>>, <<>>, Buffer(3, 10))
BifB == BifFile(BIFF_SIG, V1, <<VarRec(0, 1), VarRec(1, 2)>>, <<>>, Buffer(3, 20))

DefaultErf ==
  ErfFile(Sig("E","R","F"," "), V1_0,
          << FlatRec(tex, 2007, 0, 2), FlatRec(tex, 3007, 1, 2) >>, Buffer(3, 30))

DefaultPack ==
  ErfFile(Sig("E","R","F"," "), V1_0, << FlatRec(logo, 2007, 0, 2) >>, Buffer(3, 40))

DefaultWorld ==
  [ key_path |-> KEY_PATH, key |-> DefaultKey,
    bifs |-> ("a.bif" :> BifA @@ "b.bif" :> BifB),
    flat_path |-> ERF_PATH, flat |-> DefaultErf,
    texdir |-> "ok", texpacks |-> (1 :> DefaultPack), patch |-> Absent,
    tpc_ok |-> TRUE, out_readonly |-> FALSE, out_dirs |-> {},
    image |-> [width |-> 0, height |-> 0, mode |-> "L", data |-> <<>>],
    queries |-> {tex, zzz}, qtypes |-> {2007, 2002} ]

\* Segments: every shape of the first segment's tables against every slot
\* index of the first key record; the second segment present or absent.
SegmentShapes ==
  { BifFile(BIFF_SIG, V1, [i \in 1..v |-> VarRec(0, i)], [i \in 1..f |-> FixRec(1, i)],
            Buffer(3, 10)) : v \in 0..MaxSlot, f \in 0..(MaxSlot + 1) }
  \cup { Absent,
         BifFile(Sig("B","I","F","X"), V1, <<VarRec(0, 2)>>, <<>>, Buffer(3, 10)),
         TruncatedTable(BifA) }

SegmentIds ==
  { Id(0, f, v) : f \in 0..MaxSlot, v \in 0..MaxSlot } \cup { Id(2, 0, 0) }

SegmentWorlds ==
  { [DefaultWorld EXCEPT
       !.key = KeyFile(KEY_SIG, V1, <<"a.bif", "b.bif">>,
                       << KeyRec(tex, 2007, id), KeyRec(m01, 2002, Id(1, 0, 0)) >>),
       !.bifs = ("a.bif" :> a @@ "b.bif" :> b)]
    : id \in SegmentIds, a \in SegmentShapes, b \in {Absent, BifB} }

\* The fallback resolver's files: no TexturePacks directory, an unreadable
\* one, one pack that holds the name, a pack and patch.erf.
FallbackWorlds ==
  { [DefaultWorld EXCEPT !.texdir = d, !.patch = p, !.tpc_ok = ok,
                         !.queries = {tex, logo}]
    : d \in {"absent", "ok", "error"}, p \in {Absent, DefaultPack},
      ok \in BOOLEAN }

EngineWorlds == SegmentWorlds \cup FallbackWorlds

Init == \E w \in EngineWorlds : InitOn(w)

Spec == Init /\ [][Next]_vars

\* ------------------------------------------------------------------------
\* Indexes: every table of up to MaxKeys records, in a KEY file and in an
\* ERF or RIM file, complete or cut short; and a KEY table of one record
\* for each sample identifier.
\* ------------------------------------------------------------------------

RECURSIVE SeqsUpTo(_, _)
SeqsUpTo(S, n) ==
  IF n = 0 THEN {<<>>}
  ELSE LET shorter == SeqsUpTo(S, n - 1)
       IN shorter \cup { Append(q, x) : q \in shorter, x \in S }

IndexRecs ==
  { FlatRec(n, t, 0, 1) : n \in {tex, TeX, texSlash, m01}, t \in {2002, 3008} }

\* The KEY record of a table record at position i
AsKeyTable(recs) == [i \in 1..Len(recs) |-> KeyRec(recs[i].ResRef, recs[i].ResType, Id(0, 0, i - 1))]

\* Packed identifiers with each field at its least value, at one and at the
\* greatest value that keeps the identifier below 2^31 (integers here are
\* 32-bit signed); identifiers with bit 31 set are not sampled.
IdSamples ==
  { Id(a, b, c) : a \in {0, 1, 5, 2047}, b \in {0, 1, 63}, c \in {0, 1, 16383} }

IndexWorlds ==
  { [DefaultWorld EXCEPT
       !.key = IF cut THEN TruncatedTable(KeyFile(KEY_SIG, V1, <<"a.bif">>, AsKeyTable(recs)))
               ELSE KeyFile(KEY_SIG, V1, <<"a.bif">>, AsKeyTable(recs)),
       !.flat_path = IF rim THEN RIM_PATH ELSE ERF_PATH,
       !.flat = IF rim THEN RimFile(RIM_SIG, V1_0, recs, Buffer(3, 30))
                ELSE IF cut THEN TruncatedTable(ErfFile(Sig("M","O","D"," "), V1_0, recs, Buffer(3, 30)))
                ELSE ErfFile(Sig("M","O","D"," "), V1_0, recs, Buffer(3, 30)),
       !.queries = {tex, TeX, m01, zzz},
       !.qtypes = {2002, 3008}]
    : recs \in SeqsUpTo(IndexRecs, MaxKeys), rim \in BOOLEAN, cut \in BOOLEAN }
  \cup
  { [DefaultWorld EXCEPT
       !.key = KeyFile(KEY_SIG, V1, <<"a.bif">>, <<KeyRec(tex, 2002, id)>>),
       !.queries = {tex}, !.qtypes = {2002}]
    : id \in IdSamples }

InitIndex == \E w \in IndexWorlds : InitOn(w)

\* Key tables whose records share packed identifiers and names
SharedIdRecs ==
  { KeyRec(n, 2007, id) : n \in {tex, m01}, id \in {Id(0, 0, 0), Id(0, 0, 1)} }

SharedIdWorlds ==
  { [DefaultWorld EXCEPT !.key = KeyFile(KEY_SIG, V1, <<"a.bif">>, recs)]
    : recs \in SeqsUpTo(SharedIdRecs, MaxKeys) }

\* The packed identifiers a caller asks for: those of the tables and one of
\* no table
ResidArgs == { Id(0, 0, 0), Id(0, 0, 1), Id(1, 0, 0) }

DoGetResourceEntryByResid == \E resid \in ResidArgs : GetResourceEntryByResid(resid)

DoGetResourceEntryByIndex ==
  \E i \in (0 - 1)..MaxKeys : GetResourceEntryByIndex(i)

NextById ==
  \/ DoConstruct
  \/ DoGetResourceEntryByResid
  \/ DoGetResourceEntryByIndex

InitById == \E w \in SharedIdWorlds : InitOn(w)

SpecById == InitById /\ [][NextById]_vars

NextFind ==
  \/ DoConstruct
  \/ DoGetResourceEntry
  \/ DoErfGetEntry

SpecIndex == InitIndex /\ [][NextFind]_vars

\* ------------------------------------------------------------------------
\* Extraction: one record of every offset and size against every buffer
\* length, beside a record that spans the buffer, in each decoder.
\* ------------------------------------------------------------------------

ExtractWorlds ==
  { [DefaultWorld EXCEPT
       !.key = KeyFile(KEY_SIG, V1, <<"a.bif">>,
                       << KeyRec(tex, 2007, Id(0, 0, 0)),
                          KeyRec(m01, 2002, IF fixed THEN Id(0, 1, 0) ELSE Id(0, 0, 1)) >>),
       !.bifs = ("a.bif" :>
                  IF fixed
                  THEN BifFile(BIFF_SIG, V1, <<>>, <<FixRec(off, size), FixRec(0, n)>>,
                               Buffer(n, 10))
                  ELSE BifFile(BIFF_SIG, V1, <<VarRec(off, size), VarRec(0, n)>>, <<>>,
                               Buffer(n, 10))),
       !.flat_path = IF fixed THEN RIM_PATH ELSE ERF_PATH,
       !.flat = IF fixed
                THEN RimFile(RIM_SIG, V1_0,
                             <<FlatRec(tex, 2007, off, size), FlatRec(m01, 2002, 0, n)>>,
                             Buffer(n, 30))
                ELSE ErfFile(Sig("E","R","F"," "), V1_0,
                             <<FlatRec(tex, 2007, off, size), FlatRec(m01, 2002, 0, n)>>,
                             Buffer(n, 30))]
    : off \in 0..(MaxBuf + 1), size \in 0..(MaxBuf + 1), n \in 0..MaxBuf,
      fixed \in BOOLEAN }

InitExtract == \E w \in ExtractWorlds : InitOn(w)

NextExtract ==
  \/ DoConstruct
  \/ DoExtractEntry

SpecExtract == InitExtract /\ [][NextExtract]_vars

\* ------------------------------------------------------------------------
\* Headers: for each format, the signatures and versions the game's files
\* carry, and every header that differs from one of them in one byte.
\* ------------------------------------------------------------------------

HeaderBytes == {"K", "E", "Y", " ", "V", "1", ".", "0", "X"}

Documented(fmt) ==
  CASE fmt = "KEY" -> { <<KEY_SIG, V1>> }
    [] fmt = "BIF" -> { <<BIFF_SIG, V1>> }
    [] fmt = "ERF" -> { <<sig, V1_0>> : sig \in ERF_SIGS }
    [] fmt = "RIM" -> { <<RIM_SIG, V1_0>> }

Mutations(field) ==
  { [field EXCEPT ![i] = b] : i \in 1..4, b \in HeaderBytes } \ {field}

HeadersNear(fmt) ==
  Documented(fmt)
  \cup UNION { { <<sig, d[2]>> : sig \in Mutations(d[1]) } : d \in Documented(fmt) }
  \cup UNION { { <<d[1], ver>> : ver \in Mutations(d[2]) } : d \in Documented(fmt) }

HeaderWorlds ==
  { [DefaultWorld EXCEPT !.key = [DefaultKey EXCEPT !.FileType = h[1], !.Version = h[2]]]
    : h \in HeadersNear("KEY") }
  \cup
  { [DefaultWorld EXCEPT !.bifs = ("a.bif" :> [BifA EXCEPT !.FileType = h[1], !.Version = h[2]]
                                  @@ "b.bif" :> BifB)]
    : h \in HeadersNear("BIF") }
  \cup
  { [DefaultWorld EXCEPT !.flat = [DefaultErf EXCEPT !.FileType = h[1], !.Version = h[2]]]
    : h \in HeadersNear("ERF") }
  \cup
  { [DefaultWorld EXCEPT !.flat_path = RIM_PATH,
                         !.flat = RimFile(h[1], h[2], <<FlatRec(tex, 2007, 0, 2)>>,
                                          Buffer(3, 30))]
    : h \in HeadersNear("RIM") }

InitHeader == \E w \in HeaderWorlds : InitOn(w)

SpecHeader == InitHeader /\ [][NextExtract]_vars

\* ------------------------------------------------------------------------
\* The fallback resolver on its own
\* ------------------------------------------------------------------------

\* tl = TextureLookup(game_path)
NewLookup ==
  /\ ~constructed
  /\ texture_lookup = TL_None
  /\ texture_lookup' = IF world.texdir = "error" THEN texture_lookup ELSE NewTextureLookup
  /\ ret' = [op |-> "TextureLookup",
             kind |-> IF world.texdir = "error" THEN "error" ELSE "ok",
             exc |-> IF world.texdir = "error" THEN "OSError" ELSE ""]
  /\ UNCHANGED << world, constructed, key_path, erf_path, key, erf, bif_cache,
                  by_resref, by_resid, by_entry_index, bif_opens, missing, out_files,
                  erf_parses >>

\* tl.fetch_texture(resref)
FetchTexture(resref) ==
  /\ ~constructed
  /\ texture_lookup.state = "object"
  /\ \E f \in {fetch_texture(texture_lookup, resref)} :
     /\ texture_lookup' = f.tl
     /\ erf_parses' = BumpAll(erf_parses, f.parsed)
     /\ ret' = [op |-> "fetch_texture", resref |-> resref, kind |-> "ok", exc |-> "",
                result |-> f.result, found |-> f.found, entry |-> f.entry,
                path |-> f.path, steps |-> f.steps, parsed |-> f.parsed]
  /\ UNCHANGED << world, constructed, key_path, erf_path, key, erf, bif_cache,
                  by_resref, by_resid, by_entry_index, bif_opens, missing, out_files >>

DoFetchTexture == \E n \in world.queries : FetchTexture(n)

NextFetch ==
  \/ NewLookup
  \/ DoFetchTexture

LOGO        == <<"L","O","G","O">>
LOGO_SW     == <<"L","O","G","O","_","S","W">>
LOGO_SW_001 == <<"L","O","G","O","_","S","W","_","0","0","1">>
LOGO_SW_002 == <<"L","O","G","O","_","S","W","_","0","0","2">>
logo_sw_002 == <<"l","o","g","o","_","s","w","_","0","0","2">>

MaxPack == 2   \* entries per supplementary container, where varied

\* The sequences without repetition of at most n elements of S
RECURSIVE DistinctSeqs(_, _)
DistinctSeqs(S, n) ==
  IF n = 0 THEN {<<>>}
  ELSE LET shorter == DistinctSeqs(S, n - 1)
       IN shorter \cup UNION { { Append(q, x) : x \in S \ Range(q) } : q \in shorter }

PackOf(names, seed) ==
  ErfFile(Sig("E","R","F"," "), V1_0,
          [i \in 1..Len(names) |-> FlatRec(names[i], 2007, 0, i)], Buffer(3, seed))

NameLists == DistinctSeqs({LOGO, LOGO_SW, LOGO_SW_001, LOGO_SW_002}, MaxPack)

ShortLists == { q \in NameLists : Len(q) <= 1 }

\* Two texture packs and no patch.erf; one pack and patch.erf; and two packs
\* of at most one entry with or without patch.erf.
OrderWorlds ==
  { [DefaultWorld EXCEPT !.texpacks = (1 :> PackOf(a, 40) @@ 2 :> PackOf(b, 50)),
                         !.patch = Absent,
                         !.queries = {LOGO_SW_002, logo_sw_002}]
    : a \in NameLists, b \in NameLists }
  \cup
  { [DefaultWorld EXCEPT !.texpacks = (1 :> PackOf(a, 40)),
                         !.patch = PackOf(b, 60),
                         !.queries = {LOGO_SW_002, logo_sw_002}]
    : a \in NameLists, b \in NameLists }
  \cup
  { [DefaultWorld EXCEPT !.texpacks = (1 :> PackOf(a, 40) @@ 2 :> PackOf(b, 50)),
                         !.patch = PackOf(c, 60),
                         !.queries = {LOGO_SW_002, logo_sw_002}]
    : a \in ShortLists, b \in ShortLists, c \in ShortLists }

\* A pack file as it should be and three malformed ones: wrong signature,
\* header cut short, entry table cut short.
PackFiles ==
  { PackOf(<<LOGO_SW>>, 40),
    [PackOf(<<LOGO_SW>>, 40) EXCEPT !.FileType = Sig("X","R","F"," ")],
    [PackOf(<<LOGO_SW>>, 40) EXCEPT !.header_complete = FALSE],
    TruncatedTable(PackOf(<<LOGO_SW>>, 40)) }

CorruptWorlds ==
  { [DefaultWorld EXCEPT !.texpacks = (1 :> a @@ 2 :> b),
                         !.patch = c,
                         !.queries = {LOGO_SW, LOGO_SW_002}]
    : a \in PackFiles, b \in PackFiles, c \in PackFiles \cup {Absent} }

\* One pack with one entry: its type code, its size, whether the texture
\* decoder accepts the installation's blobs, and the TexturePacks directory.
TypeWorlds ==
  { [DefaultWorld EXCEPT !.texpacks =
                            (1 :> ErfFile(Sig("E","R","F"," "), V1_0,
                                          << FlatRec(LOGO_SW, t, 0, n) >>, Buffer(MaxBuf, 40))),
                         !.patch = Absent,
                         !.tpc_ok = ok,
                         !.texdir = d,
                         !.queries = {LOGO_SW, LOGO_SW_002}]
    : t \in {2007, 3007, 2033, 2002}, n \in 0..MaxBuf, ok \in BOOLEAN,
      d \in {"ok", "absent", "error"} }

FetchWorlds == OrderWorlds \cup CorruptWorlds \cup TypeWorlds

InitFetch == \E w \in FetchWorlds : InitOn(w)

SpecFetch == InitFetch /\ [][NextFetch]_vars

\* ------------------------------------------------------------------------
\* Export: the engine and the container decoders writing to a folder
\* ------------------------------------------------------------------------

\* A type code the registry does not list
UnregisteredType == CHOOSE t \in 4000..4999 : t \notin DOMAIN TypeTable

TEX_TPC == <<"t","e","x",".","t","p","c">>

ExportKey ==
  KeyFile(KEY_SIG, V1, <<"a.bif", "b.bif">>,
          << KeyRec(tex, 2007, Id(0, 0, 0)),
             KeyRec(m01, 2002, Id(1, 0, 0)),
             KeyRec(m01, 3008, Id(1, 0, 1)),
             KeyRec(logo, UnregisteredType, Id(0, 0, 0)) >>)

ExportRecs ==
  << FlatRec(tex, 2007, 0, 2), FlatRec(tex, 3007, 1, 2),
     FlatRec(logo, UnregisteredType, 0, 1) >>

ExportFlats ==
  { <<ERF_PATH, ErfFile(Sig("E","R","F"," "), V1_0, ExportRecs, Buffer(3, 30))>>,
    <<RIM_PATH, RimFile(Sig("R","I","M"," "), V1_0, ExportRecs, Buffer(3, 30))>> }

ExportPacks ==
  { ErfFile(Sig("E","R","F"," "), V1_0, <<>>, Buffer(3, 40)),
    ErfFile(Sig("E","R","F"," "), V1_0,
            << FlatRec(tex, 2007, 0, 2), FlatRec(m01, 2007, 1, 2) >>, Buffer(3, 40)) }

\* The flat container, the texture pack, the first segment, and the export
\* folder: writable or not, with or without a directory in the way.
ExportWorlds ==
  { [DefaultWorld EXCEPT !.key = ExportKey,
                         !.flat_path = fl[1], !.flat = fl[2],
                         !.texpacks = (1 :> pk),
                         !.bifs = ("a.bif" :> a @@ "b.bif" :> BifB),
                         !.out_readonly = ro, !.out_dirs = dirs,
                         !.queries = {tex, m01}]
    : fl \in ExportFlats, pk \in ExportPacks, a \in {BifA, Absent},
      ro \in BOOLEAN, dirs \in {{}, {TEX_TPC}} }

tex1 == <<"t","e","x","1">>

\* A name no backend stores, one digit longer than a texture of the pack;
\* the texture decoder accepts the pack's blobs or not.
FuzzyExportWorlds ==
  { [DefaultWorld EXCEPT !.key = ExportKey,
                         !.flat_path = fl[1], !.flat = fl[2],
                         !.texpacks = (1 :> pk),
                         !.tpc_ok = ok,
                         !.queries = {tex1}]
    : fl \in ExportFlats, pk \in ExportPacks, ok \in BOOLEAN }

\* A TexturePacks directory that cannot be listed, the first segment on disk
\* or not.
UnreadableExportWorlds ==
  { [DefaultWorld EXCEPT !.key = ExportKey,
                         !.flat_path = fl[1], !.flat = fl[2],
                         !.texdir = "error",
                         !.bifs = ("a.bif" :> a @@ "b.bif" :> BifB),
                         !.queries = {tex, tex1}]
    : fl \in ExportFlats, a \in {BifA, Absent} }

InitExport ==
  \E w \in ExportWorlds \cup FuzzyExportWorlds \cup UnreadableExportWorlds : InitOn(w)

SpecExport == InitExport /\ [][NextExport]_vars

\* ------------------------------------------------------------------------
\* The name sanitizer on its own
\* ------------------------------------------------------------------------

\* sanitize_resref(raw)
Sanitize(raw) ==
  /\ ~constructed
  /\ ret' = [op |-> "sanitize_resref", raw |-> raw, name |-> sanitize_resref(raw)]
  /\ UNCHANGED << world, constructed, key_path, erf_path, key, erf, bif_cache,
                  by_resref, by_resid, by_entry_index, texture_lookup, bif_opens,
                  missing, out_files, erf_parses >>

DoSanitize == \E n \in world.queries : Sanitize(n)

\* sanitize_resref on the name it returned
DoSanitizeAgain ==
  /\ ret.op = "sanitize_resref"
  /\ Sanitize(ret.name)

NextSanitize ==
  \/ DoSanitize
  \/ DoSanitizeAgain

MaxName == 3   \* characters of a raw name

\* Letters of both cases, a digit, the two allowed signs, a path separator,
\* a dot, a blank, a non-ASCII letter and two control characters
RawChars == {"a", "Z", "7", "_", "-", "/", ".", " ", "e-acute", "NUL", "TAB"}

RawNames == SeqsUpTo(RawChars, MaxName)

SanitizeWorlds == { [DefaultWorld EXCEPT !.queries = {raw}] : raw \in RawNames }

InitSanitize == \E w \in SanitizeWorlds : InitOn(w)

SpecSanitize == InitSanitize /\ [][NextSanitize]_vars

\* ------------------------------------------------------------------------
\* TPCToPNG: the vertical flip and the PNG encoder
\*
\* An image is what decode_tpc hands on: width, height, mode and a pixel
\* buffer of exactly width * height * channels bytes.  zlib.compress and
\* binascii.crc32 are kept symbolic: the compressed stream is the record
\* [zlib |-> raw], a chunk carries the data its length prefix counts and the
\* bytes its checksum covers.
\* ------------------------------------------------------------------------

Zeros(n) == [i \in 1..n |-> 0]

\* buf[start:stop] = chunk on a bytearray
SliceAssign(buf, start, stop, chunk) ==
  LET a == Min(start, Len(buf))
      b == Min(IF stop < start THEN start ELSE stop, Len(buf))
  IN Slice(buf, 0, a) \o chunk \o Slice(buf, b, Len(buf))

\* Variant of the loop of _flip_vertical that copies each row to its own
\* place.
RECURSIVE FlipRows_in_place(_, _, _, _, _)
FlipRows_in_place(flipped, y, stride, height, data) ==
  IF y >= height THEN flipped
  ELSE FlipRows_in_place(
         SliceAssign(flipped, y * stride, y * stride + stride,
                     Slice(data, y * stride, y * stride + stride)),
         y + 1, stride, height, data)

\* The loop of _flip_vertical from row y on
RECURSIVE FlipRows(_, _, _, _, _)
FlipRows(flipped, y, stride, height, data) ==
  IF y >= height THEN flipped
  ELSE FlipRows(
         SliceAssign(flipped, (height - 1 - y) * stride,
                     (height - 1 - y) * stride + stride,
                     Slice(data, y * stride, y * stride + stride)),
         y + 1, stride, height, data)

\* TPCToPNG._flip_vertical
_flip_vertical(width, height, channels, data) ==
  FlipRows(Zeros(Len(data)), 0, width * channels, height, data)

\* struct.pack("!I", n)
BE32(n) ==
  << (n \div 16777216) % 256, (n \div 65536) % 256, (n \div 256) % 256, n % 256 >>

\* TPCToPNG._png_chunk
_png_chunk(chunk_type, chunk_data) ==
  [length_of |-> chunk_data, type |-> chunk_type, data |-> chunk_data,
   crc_of |-> <<chunk_type, chunk_data>>]

\* zlib.compress
zlib_compress(raw) == [zlib |-> raw]

color_types == [m \in {"L", "RGB", "RGBA"} |-> CASE m = "L" -> 0 [] m = "RGB" -> 2 [] OTHER -> 6]

channels_of == [m \in {"L", "RGB", "RGBA"} |-> CASE m = "L" -> 1 [] m = "RGB" -> 3 [] OTHER -> 4]

\* Variant of the scanline loop that puts no filter byte before a row.
RECURSIVE ScanLines_unfiltered(_, _, _, _, _)
ScanLines_unfiltered(raw, y, stride, height, data) ==
  IF y >= height THEN raw
  ELSE ScanLines_unfiltered(raw \o Slice(data, y * stride, y * stride + stride),
                            y + 1, stride, height, data)

\* The scanline loop of _encode_png from row y on
RECURSIVE ScanLines(_, _, _, _, _)
ScanLines(raw, y, stride, height, data) ==
  IF y >= height THEN raw
  ELSE ScanLines(raw \o <<0>> \o Slice(data, y * stride, y * stride + stride),
                 y + 1, stride, height, data)

PNG_SIGNATURE == <<137, 80, 78, 71, 13, 10, 26, 10>>

\* TPCToPNG._encode_png
_encode_png(width, height, mode, data) ==
  IF mode \notin DOMAIN color_types
  THEN [kind |-> "error", exc |-> "ValueError", png |-> <<>>]
  ELSE [kind |-> "ok", exc |-> "",
        png |-> << PNG_SIGNATURE,
                   _png_chunk("IHDR", BE32(width) \o BE32(height)
                                        \o <<8, color_types[mode], 0, 0, 0>>),
                   _png_chunk("IDAT",
                              zlib_compress(ScanLines(<<>>, 0, width * channels_of[mode],
                                                      height, data))),
                   _png_chunk("IEND", <<>>) >>]

ImageUnchanged ==
  UNCHANGED << world, constructed, key_path, erf_path, key, erf, bif_cache,
               by_resref, by_resid, by_entry_index, texture_lookup, bif_opens,
               missing, out_files, erf_parses >>

\* _flip_vertical(width, height, channels, data) on the decoded image
FlipVertical ==
  /\ ~constructed
  /\ world.image.mode \in DOMAIN channels_of
  /\ ret' = [op |-> "_flip_vertical", width |-> world.image.width,
             height |-> world.image.height,
             channels |-> channels_of[world.image.mode],
             data |-> world.image.data,
             out |-> _flip_vertical(world.image.width, world.image.height,
                                    channels_of[world.image.mode], world.image.data)]
  /\ ImageUnchanged

\* _flip_vertical on the buffer it returned
FlipBack ==
  /\ ~constructed
  /\ ret.op = "_flip_vertical"
  /\ ret' = [ret EXCEPT !.data = ret.out,
                        !.out = _flip_vertical(ret.width, ret.height, ret.channels, ret.out)]
  /\ ImageUnchanged

\* _encode_png(width, height, mode, data) on the decoded image
EncodePng ==
  /\ ~constructed
  /\ \E r \in {_encode_png(world.image.width, world.image.height, world.image.mode,
                            world.image.data)} :
       ret' = [op |-> "_encode_png", width |-> world.image.width,
               height |-> world.image.height, mode |-> world.image.mode,
               data |-> world.image.data, kind |-> r.kind, exc |-> r.exc, png |-> r.png]
  /\ ImageUnchanged

NextImage ==
  \/ FlipVertical
  \/ FlipBack
  \/ EncodePng

MaxDim == 2   \* width and height of an image

\* The bytes per pixel of a mode; "LA" is a mode the encoder does not know.
PixelBytes(mode) == CASE mode = "L" -> 1 [] mode = "LA" -> 2 [] mode = "RGB" -> 3 [] OTHER -> 4

Images ==
  { [width |-> w, height |-> h, mode |-> m, data |-> Buffer(w * h * PixelBytes(m), seed)]
    : w \in 0..MaxDim, h \in 0..MaxDim, m \in {"L", "LA", "RGB", "RGBA"},
      seed \in {1, 100} }

ImageWorlds == { [DefaultWorld EXCEPT !.image = img] : img \in Images }

InitImage == \E w \in ImageWorlds : InitOn(w)

SpecImage == InitImage /\ [][NextImage]_vars

\* ========================================================================
\* Properties
\* ========================================================================

\* The parsed table of the loaded backend, its name index, and the record
\* count its file header declares.
BackendTable ==
  IF erf # None THEN erf.entries
  ELSE IF key # None THEN key.key_table
  ELSE <<>>

BackendIndex == IF erf # None THEN erf.by_resref ELSE by_resref

DeclaredCount ==
  IF erf # None
  THEN (IF erf.class = "RIM" THEN world.flat.KeyCount ELSE world.flat.EntryCount)
  ELSE IF key # None THEN world.key.KeyCount
  ELSE 0

\* The entries stored under a name, and their type codes
StoredUnder(name) == GetList(BackendIndex, Lower(name))

TypeCodes(entries) == { EntryType(entries[i]) : i \in 1..Len(entries) }

IsLookup == ret.op \in {"get_resource_entry", "erf.get_entry"}

\* C1: on every loaded index (engine in indexed or flat mode, and the ERF
\* decoder's get_entry), a lookup without a type code raises the ambiguity
\* error whenever the entries stored under the name carry more than one
\* type code; a lookup with a type code t raises nothing, returns an entry
\* of type t stored under the name if there is one, and None otherwise.
C1_AmbiguityLookup ==
  IsLookup =>
    /\ (ret.type = NoType /\ Cardinality(TypeCodes(StoredUnder(ret.resref))) > 1)
         => (ret.kind = "error" /\ ret.exc = "ValueError")
    /\ ret.type # NoType =>
         /\ ret.kind # "error"
         /\ (ret.type \in TypeCodes(StoredUnder(ret.resref)))
              => /\ ret.kind = "found"
                 /\ ret.entry \in Range(StoredUnder(ret.resref))
                 /\ EntryType(ret.entry) = ret.type
         /\ (ret.type \notin TypeCodes(StoredUnder(ret.resref)))
              => (ret.kind = "none" /\ ret.entry = None)

\* An untyped lookup of a name stored under two type codes has raised.
C1_Witness ==
  /\ ret.op = "get_resource_entry"
  /\ ret.type = NoType
  /\ Cardinality(TypeCodes(StoredUnder(ret.resref))) > 1
  /\ ret.kind = "error"

\* The sum of the lengths of the lists of an index
RECURSIVE TotalEntries(_)
TotalEntries(index) ==
  IF DOMAIN index = {} THEN 0
  ELSE LET k == CHOOSE x \in DOMAIN index : TRUE
       IN Len(index[k]) + TotalEntries([x \in DOMAIN index \ {k} |-> index[x]])

\* The records of a table whose lower-cased name is k, in table order
RECURSIVE UnderName(_, _)
UnderName(table, k) ==
  IF table = <<>> THEN <<>>
  ELSE IF Lower(Head(table).ResRef) = k
    THEN <<Head(table)>> \o UnderName(Tail(table), k)
  ELSE UnderName(Tail(table), k)

\* C9: after load, the name index of every backend (KEY-mode engine, ERF,
\* RIM) holds under each lower-cased name exactly the parsed records of that
\* name, once each and in table order; the lists together hold as many
\* entries as the header declares records; records that share a name are
\* all retained.
C9_IndexHoldsEveryRecord ==
  (constructed /\ (erf # None \/ key # None)) =>
    /\ Len(BackendTable) = DeclaredCount
    /\ DOMAIN BackendIndex = { Lower(BackendTable[i].ResRef) : i \in 1..Len(BackendTable) }
    /\ \A k \in DOMAIN BackendIndex : BackendIndex[k] = UnderName(BackendTable, k)
    /\ TotalEntries(BackendIndex) = DeclaredCount

\* A backend is loaded whose index keeps two records under one name.
C9_Witness ==
  /\ constructed
  /\ erf # None \/ key # None
  /\ \E k \in DOMAIN BackendIndex : Len(BackendIndex[k]) = 2
  /\ TotalEntries(BackendIndex) = DeclaredCount

\* C8: for every packed identifier id of the key table, after load the
\* entry's segment index is (id >> 20) & 0xFFF, its variable-slot index is
\* id & 0xFFFFF and its fixed-slot index is (id >> 14) & 0x3F, hence < 64.
\* (Shifts and masks are written here as division and remainder.)
C8_PackedIdFields ==
  (constructed /\ key # None) =>
    /\ Len(key.key_table) = Len(world.key.key_table)
    /\ \A i \in 1..Len(key.key_table) :
         /\ key.key_table[i].ResID = world.key.key_table[i].ResID
         /\ key.key_table[i].BIFIndex = (world.key.key_table[i].ResID \div 1048576) % 4096
         /\ key.key_table[i].ResourceIndex = world.key.key_table[i].ResID % 1048576
         /\ key.key_table[i].FixedIndex = (world.key.key_table[i].ResID \div 16384) % 64
         /\ key.key_table[i].FixedIndex < 64

\* A key table is loaded whose identifier has bits set in all three fields
\* and above the fixed-slot field.
C8_Witness ==
  /\ constructed
  /\ key # None
  /\ \E i \in 1..Len(key.key_table) :
       /\ key.key_table[i].ResID = 2047 * 1048576 + 63 * 16384 + 16383
       /\ key.key_table[i].BIFIndex = 2047
       /\ key.key_table[i].FixedIndex = 63
       /\ key.key_table[i].ResourceIndex = 1048575

\* The table record that extract_entry serves for an entry, read from the
\* files on disk: its offset, its declared size, and the buffer's length.
Declared(off, size, buf) == [Offset |-> off, Size |-> size, Buf |-> buf]

SegmentRecord(f, entry) ==
  IF entry.ResourceIndex < f.VariableResourceCount
  THEN Declared(f.vtable[entry.ResourceIndex + 1].Offset,
                f.vtable[entry.ResourceIndex + 1].FileSize, Len(f.data))
  ELSE Declared(f.ftable[entry.FixedIndex + 1].Offset,
                f.ftable[entry.FixedIndex + 1].FileSize, Len(f.data))

RecordOf(entry) ==
  IF erf # None THEN Declared(entry.Offset, entry.Size, Len(erf.data))
  ELSE SegmentRecord(world.bifs[key.file_table[entry.BIFIndex + 1]], entry)

OutOfRange(r) == r.Offset + r.Size > r.Buf

\* C2: for every entry of every decoder (ERF, RIM, BIF variable slot, BIF
\* fixed slot) and every buffer, also when offset+size lies past the end of
\* the buffer, the bytes extract returns are exactly as many as the entry's
\* declared size.
C2_ExtractLengthIsDeclaredSize ==
  (ret.op = "extract_entry" /\ ret.kind = "ok")
    => Len(ret.value) = RecordOf(ret.entry).Size

\* An extract of a record that ends past the buffer has returned.
C2_Witness ==
  /\ ret.op = "extract_entry"
  /\ ret.kind = "ok"
  /\ OutOfRange(RecordOf(ret.entry))

\* C3: when a table record declares offset+size beyond the buffer, load
\* succeeds and the record is indexed; extracting it ends in a TruncatedData
\* error, never in a return of fewer bytes; extracting an in-range entry of
\* the same archive succeeds.
C3_OutOfRangeExtractRaises ==
  /\ (ret.op = "init" /\ ~ret.kp.isNone /\ ret.ep.isNone /\ Truthy(ret.kp))
       => (ret.kind = "ok" /\ Len(key.key_table) = world.key.KeyCount)
  /\ (ret.op = "init" /\ ret.kp.isNone /\ Truthy(ret.ep))
       => (ret.kind = "ok" /\ TotalEntries(erf.by_resref) = DeclaredCount)
  /\ (ret.op = "extract_entry" /\ OutOfRange(RecordOf(ret.entry)))
       => (ret.kind = "error" /\ ret.exc = "TruncatedData")
  /\ (ret.op = "extract_entry" /\ ~OutOfRange(RecordOf(ret.entry)))
       => (ret.kind = "ok" /\ Len(ret.value) = RecordOf(ret.entry).Size)

\* The load that the last operation performed, if any: the format, the
\* file, and the parts of it the constructor read.
LoadOf(fmt, f, steps) == [fmt |-> fmt, file |-> f, steps |-> steps]

LoadSeen ==
  IF ret.op = "init" /\ Truthy(ret.kp) /\ ret.ep.isNone
    THEN { LoadOf("KEY", world.key, ret.steps) }
  ELSE IF ret.op = "init" /\ ret.kp.isNone /\ Truthy(ret.ep)
    THEN { LoadOf(IF EndsWith(Lower(ret.ep.chars), DOT_RIM) THEN "RIM" ELSE "ERF",
                  world.flat, ret.steps) }
  ELSE IF ret.op = "extract_entry" /\ ret.opened
    THEN { LoadOf("BIF", world.bifs[key.file_table[ret.entry.BIFIndex + 1]], ret.steps) }
  ELSE {}

HeaderOf(f) == <<f.FileType, f.Version>>

Differing(a, b) == Cardinality({ i \in 1..4 : a[i] # b[i] })

OneByteFrom(h, d) == Differing(h[1], d[1]) + Differing(h[2], d[2]) = 1

\* The load went past the header
Accepted(l) == Len(l.steps) > 1

\* C4: for each of KEY, BIF, the ERF family and RIM, load accepts a header
\* only if its signature and version are one of the documented combinations,
\* and rejects, before any table is parsed, every header that differs from
\* an accepted one in a single byte of the signature or of the version.
C4_HeaderExactMatch ==
  \A l \in LoadSeen :
    /\ Accepted(l) => HeaderOf(l.file) \in Documented(l.fmt)
    /\ (\E d \in Documented(l.fmt) : OneByteFrom(HeaderOf(l.file), d))
         => l.steps = <<"header">>

\* A load has read a header one byte away from a documented one.
C4_Witness ==
  \E l \in LoadSeen : \E d \in Documented(l.fmt) : OneByteFrom(HeaderOf(l.file), d)

\* The segment file an entry names, as it is on disk
SegmentInTable(entry) == entry.BIFIndex < Len(key.file_table)

SegmentFile(entry) == world.bifs[key.file_table[entry.BIFIndex + 1]]

SegmentAbsent(entry) ==
  SegmentInTable(entry) /\ ~BifExists(key.file_table[entry.BIFIndex + 1])

\* The segment file is present and well formed, and one of its tables has
\* the entry's slot.
SegmentServes(entry) ==
  /\ SegmentInTable(entry)
  /\ BifExists(key.file_table[entry.BIFIndex + 1])
  /\ SegmentFile(entry).header_complete
  /\ SegmentFile(entry).FileType = BIFF_SIG
  /\ SubSeq(SegmentFile(entry).Version, 1, 2) = <<"V", "1">>
  /\ SegmentFile(entry).VariableResourceCount = Len(SegmentFile(entry).vtable)
  /\ SegmentFile(entry).FixedResourceCount = Len(SegmentFile(entry).ftable)
  /\ \/ entry.ResourceIndex < SegmentFile(entry).VariableResourceCount
     \/ entry.FixedIndex < SegmentFile(entry).FixedResourceCount

IndexedMode == constructed /\ key # None /\ erf = None

\* C5: in indexed mode, extract on an entry whose segment file is absent
\* from disk raises the missing-segment error and leaves the segment cache
\* as it was (no key for the missing segment, every cached store still
\* there and the same), and an extract, after that, on an entry of a present
\* segment succeeds.
C5_MissingSegmentLeavesCache ==
  [][ (IndexedMode /\ ret'.op = "extract_entry") =>
        /\ SegmentAbsent(ret'.entry) =>
             /\ ret'.kind = "error"
             /\ ret'.exc = "FileNotFoundError"
             /\ bif_cache' = bif_cache
             /\ ret'.entry.BIFIndex \notin DOMAIN bif_cache'
        /\ (missing # {} /\ SegmentServes(ret'.entry)) =>
             /\ ret'.kind = "ok"
             /\ ret'.entry.BIFIndex \in DOMAIN bif_cache' ]_vars

\* After an extract met an absent segment, with another segment's store in
\* the cache, an extract on the present segment has succeeded.
C5_Witness ==
  /\ IndexedMode
  /\ missing # {}
  /\ ret.op = "extract_entry"
  /\ ret.kind = "ok"
  /\ ret.entry.BIFIndex \notin missing
  /\ DOMAIN bif_cache # {}
  /\ DOMAIN bif_cache \cap missing = {}

\* A step keeps every cached store, under its index and unchanged.
CacheGrows ==
  \A i \in DOMAIN bif_cache : i \in DOMAIN bif_cache' /\ bif_cache'[i] = bif_cache[i]

\* The segment indexes whose file the step opened
OpenedBy == { i \in DOMAIN bif_opens' : Count(bif_opens, i) < bif_opens'[i] }

\* A step opens a segment file only in an extract, and only one that the
\* cache does not hold.
OpenedOnlyByExtract ==
  \A i \in OpenedBy :
    /\ ret'.op \in {"extract_entry", "extract_resref"}
    /\ ret'.opened
    /\ ret'.entry.BIFIndex = i
    /\ i \notin DOMAIN bif_cache

C7_SlotResolutionOrder ==
  (IndexedMode /\ ret.op = "extract_entry" /\ ret.entry.BIFIndex \in DOMAIN bif_cache) =>
    IF ret.entry.ResourceIndex < Len(bif_cache[ret.entry.BIFIndex].variable_resources)
      THEN /\ ret.kind = "ok"
           /\ ret.slot = "variable"
           /\ ret.value = Slice(bif_cache[ret.entry.BIFIndex].data,
                                 SegmentFile(ret.entry).vtable[ret.entry.ResourceIndex + 1].Offset,
                                 SegmentFile(ret.entry).vtable[ret.entry.ResourceIndex + 1].Offset
                                 + SegmentFile(ret.entry).vtable[ret.entry.ResourceIndex + 1].FileSize)
    ELSE IF ret.entry.FixedIndex < Len(bif_cache[ret.entry.BIFIndex].fixed_resources)
      THEN /\ ret.kind = "ok"
           /\ ret.slot = "fixed"
           /\ ret.value = Slice(bif_cache[ret.entry.BIFIndex].data,
                                 SegmentFile(ret.entry).ftable[ret.entry.FixedIndex + 1].Offset,
                                 SegmentFile(ret.entry).ftable[ret.entry.FixedIndex + 1].Offset
                                 + SegmentFile(ret.entry).ftable[ret.entry.FixedIndex + 1].FileSize)
    ELSE /\ ret.kind = "error"
         /\ ret.exc = "IndexError"
         /\ ret.value = <<>>

\* An extract was served by the variable table although the fixed table has
\* a record at the entry's fixed-slot index.
C7_Witness ==
  /\ IndexedMode
  /\ ret.op = "extract_entry"
  /\ ret.slot = "variable"
  /\ ret.entry.BIFIndex \in DOMAIN bif_cache
  /\ ret.entry.FixedIndex < Len(bif_cache[ret.entry.BIFIndex].fixed_resources)

\* C10: extract_resref first runs the lookup; if the lookup yields an entry
\* it returns the outcome of extract_entry on that entry and does not touch
\* the fallback resolver; only if the lookup yields no entry does it call
\* the fallback; and it raises the unknown-resource error only after the
\* fallback has been called and has missed.
C10_ExtractResrefOrder ==
  [][ ret'.op = "extract_resref" =>
        /\ ret'.calls[1] = "get_resource_entry"
        /\ ret'.find = "found" =>
             /\ ret'.calls = <<"get_resource_entry", "extract_entry">>
             /\ ret'.entry \in Range(StoredUnder(ret'.resref))
             /\ ret'.kind = extract_entry(ret'.entry).kind
             /\ ret'.exc = extract_entry(ret'.entry).exc
             /\ ret'.value = extract_entry(ret'.entry).value
             /\ texture_lookup' = texture_lookup
        /\ ret'.find # "found" =>
             /\ Len(ret'.calls) >= 2
             /\ ret'.calls[2] = "_fetch_texture_bytes"
             /\ bif_cache' = bif_cache
             /\ ret'.fetch.hit => (ret'.kind = "ok" /\ ret'.value = ret'.fetch.data)
             /\ ~ret'.fetch.hit => (ret'.kind = "error" /\ ret'.exc = "KeyError")
        /\ ret'.exc = "KeyError" =>
             /\ ret'.find # "found"
             /\ ret'.calls = <<"get_resource_entry", "_fetch_texture_bytes", "raise">>
             /\ ~ret'.fetch.hit ]_vars

\* The lookup found nothing and the fallback resolver supplied the bytes.
C10_Witness ==
  /\ ret.op = "extract_resref"
  /\ ret.find = "none"
  /\ ret.fetch.hit
  /\ ret.kind = "ok"
  /\ texture_lookup.state = "object"

\* ------------------------------------------------------------------------
\* The fallback resolver: what the supplementary containers hold
\* ------------------------------------------------------------------------

\* The entries of the container at `path`, as its file lists them; none
\* when the file is not a well-formed ERF.
Listed(path) ==
  IF ErfLoad(FileAt(path)).kind = "ok" THEN ErfLoad(FileAt(path)).obj.entries ELSE <<>>

TextureEntries(path) ==
  { e \in Range(Listed(path)) : e.ResType \in ALLOWED_TEXTURE_TYPES }

HoldsExact(path, name) ==
  \E e \in TextureEntries(path) : Lower(e.ResRef) = Lower(name)

\* The length of the longest candidate of `name` that the entry's name
\* contains; 0 when it contains none.
MatchLength(e, name) ==
  MaxOf({ Len(c) : c \in { d \in Range(_substring_candidates(name)) :
                              IsSubstring(d, Lower(e.ResRef)) } })

HoldsFuzzy(path, name) ==
  \E e \in TextureEntries(path) : MatchLength(e, name) > 0

Packs == Range(_collect_texturepack_erfs)

\* The first of the four strategies that has something to return for
\* `name`, 0 when none has.
FirstStrategy(name) ==
  IF \E p \in Packs : HoldsExact(p, name) THEN 1
  ELSE IF PatchExists /\ HoldsExact(PatchPath, name) THEN 2
  ELSE IF \E p \in Packs : HoldsFuzzy(p, name) THEN 3
  ELSE IF PatchExists /\ HoldsFuzzy(PatchPath, name) THEN 4
  ELSE 0

\* The strategies in their order, those on patch.erf only when it exists
Strategies ==
  IF PatchExists THEN <<"exact_packs", "exact_patch", "fuzzy_packs", "fuzzy_patch">>
  ELSE <<"exact_packs", "fuzzy_packs">>

StrategyName(n) == <<"exact_packs", "exact_patch", "fuzzy_packs", "fuzzy_patch">>[n]

\* fetch_texture ran its strategies (the result did not come from the cache)
IsScan == ret.op = "fetch_texture" /\ ret.steps # <<"cache">>

\* C14: fetch_texture applies its four strategies in strict order and stops
\* at the first hit: exact match in the texture packs, exact match in
\* patch.erf, fuzzy match in the texture packs, fuzzy match in patch.erf.  A
\* fuzzy match is returned only when no container holds an exact match, and
\* an entry of patch.erf only when no texture pack produced one at that
\* stage.
C14_StrategyOrder ==
  IsScan =>
    /\ \E n \in 1..Len(Strategies) : ret.steps = SubSeq(Strategies, 1, n)
    /\ ret.found <=> FirstStrategy(ret.resref) # 0
    /\ ret.result.hit <=> ret.found
    /\ ret.found =>
         /\ ret.steps[Len(ret.steps)] = StrategyName(FirstStrategy(ret.resref))
         /\ FirstStrategy(ret.resref) \in {1, 3} <=> ret.path \in Packs
         /\ FirstStrategy(ret.resref) \in {2, 4} <=> ret.path = PatchPath
         /\ ret.entry \in TextureEntries(ret.path)
         /\ FirstStrategy(ret.resref) \in {1, 2} <=>
              Lower(ret.entry.ResRef) = Lower(ret.resref)
         /\ FirstStrategy(ret.resref) \in {3, 4} =>
              MatchLength(ret.entry, ret.resref) > 0
    /\ ~ret.found => ret.steps = Strategies

\* A fetch went through all four strategies and took its entry from the
\* fuzzy match in patch.erf.
C14_Witness ==
  /\ IsScan
  /\ ret.steps = <<"exact_packs", "exact_patch", "fuzzy_packs", "fuzzy_patch">>
  /\ ret.found
  /\ ret.path = PatchPath
  /\ Packs # {}


\* fetch_texture took its entry from a fuzzy step
FuzzyStep ==
  /\ IsScan
  /\ ret.found
  /\ ret.steps[Len(ret.steps)] \in {"fuzzy_packs", "fuzzy_patch"}

\* The containers of the step that produced the entry
StepContainers == IF ret.path = PatchPath THEN {PatchPath} ELSE Packs

\* C15: in a fuzzy step over a list of containers the entry returned is the
\* one whose longest matching candidate is longest among the texture
\* entries of all containers of the step; the search order decides only
\* between entries whose matching candidates are equally long.
C15_FuzzyLongestOverall ==
  FuzzyStep =>
    \A p \in StepContainers : \A e \in TextureEntries(p) :
      /\ MatchLength(e, ret.resref) <= MatchLength(ret.entry, ret.resref)
      /\ p < ret.path => MatchLength(e, ret.resref) < MatchLength(ret.entry, ret.resref)

\* The query in lower case without its trailing digits and underscores
DigitStripped(name) == StripUnderscore(RStrip(Lower(name), Digits))

AllContainers == Packs \cup (IF PatchExists THEN {PatchPath} ELSE {})

\* The texture entries of some container that carry the name
Named(name) ==
  { e \in UNION { TextureEntries(p) : p \in AllContainers } : Lower(e.ResRef) = Lower(name) }

\* C16: with texture entries LOGO_SW and LOGO_SW_001 and no entry
\* LOGO_SW_002, fetch_texture("LOGO_SW_002") resolves to LOGO_SW whatever
\* the order of the entries and of the containers; in general, when the
\* query without its trailing digits is the whole name of an entry, that
\* entry is returned and not a longer-named entry containing it.
C16_DigitStrippedNameWins ==
  ( /\ IsScan
    /\ Named(ret.resref) = {}
    /\ Named(DigitStripped(ret.resref)) # {} )
  => /\ ret.found
     /\ Lower(ret.entry.ResRef) = DigitStripped(ret.resref)

\* LOGO_SW_002 was fetched from one container that lists LOGO_SW_001 and
\* LOGO_SW, and no container lists LOGO_SW_002.
C16_Witness ==
  /\ IsScan
  /\ ret.resref = LOGO_SW_002
  /\ Named(LOGO_SW_002) = {}
  /\ \E p \in AllContainers :
       {LOGO_SW, LOGO_SW_001} \subseteq { e.ResRef : e \in TextureEntries(p) }
  /\ ret.found

\* A fuzzy step over two texture packs returned an entry of the first
\* although the second lists an entry with a longer matching candidate.
C15_Witness ==
  /\ FuzzyStep
  /\ ret.path \in Packs
  /\ \E p \in Packs : \E e \in TextureEntries(p) :
       p > ret.path /\ MatchLength(e, ret.resref) > MatchLength(ret.entry, ret.resref)

\* C17: once fetch_texture has completed for a name, every later fetch of
\* that name, compared case-insensitively, returns the same result, hit or
\* miss, without parsing or scanning a container; the result cache only
\* grows and an entry once written is never changed.
C17_ResultCache ==
  [][ /\ ( texture_lookup.state = "object" /\ texture_lookup'.state = "object" ) =>
          \A k \in DOMAIN texture_lookup.result_cache :
            /\ k \in DOMAIN texture_lookup'.result_cache
            /\ texture_lookup'.result_cache[k] = texture_lookup.result_cache[k]
      /\ ( ret'.op = "fetch_texture" /\ texture_lookup.state = "object" ) =>
          /\ Lower(ret'.resref) \in DOMAIN texture_lookup'.result_cache
          /\ texture_lookup'.result_cache[Lower(ret'.resref)] = ret'.result
          /\ Lower(ret'.resref) \in DOMAIN texture_lookup.result_cache =>
               /\ ret'.result = texture_lookup.result_cache[Lower(ret'.resref)]
               /\ ret'.steps = <<"cache">>
               /\ ret'.parsed = <<>>
               /\ erf_parses' = erf_parses
               /\ texture_lookup' = texture_lookup ]_vars

\* A name was fetched under two spellings; the second fetch was served a
\* miss from the result cache.
C17_Witness ==
  /\ ret.op = "fetch_texture"
  /\ ret.steps = <<"cache">>
  /\ ~ret.result.hit
  /\ texture_lookup.state = "object"
  /\ Lower(ret.resref) \in DOMAIN texture_lookup.result_cache
  /\ ret.resref # Lower(ret.resref)

\* C18: over any sequence of fetches on one resolver each supplementary
\* container file is parsed at most once, a container whose parse fails
\* included.
C18_ContainerParsedOnce ==
  \A p \in DOMAIN erf_parses : erf_parses[p] <= 1

\* A container that is not a well-formed ERF has been parsed.
C18_Witness ==
  /\ texture_lookup.state = "object"
  /\ \E p \in DOMAIN erf_parses :
       /\ ErfLoad(FileAt(p)).kind = "error"
       /\ p \notin DOMAIN texture_lookup.erf_cache

\* The bytes the file of container `path` holds for the entry
RawBytes(path, e) == Slice(FileAt(path).data, e.Offset, e.Offset + e.Size)

\* fetch_texture resolved an entry of a compressed-texture type
CompressedHit ==
  /\ IsScan
  /\ ret.found
  /\ ret.entry.ResType \in {2007, 3007}

\* C19: when the resolver resolves an entry of type 2007 or 3007 the result
\* is the decoded bytes with mime image/png and name <name>.png when the
\* decoder succeeds, and the raw bytes unchanged with the generic binary
\* mime and name <name>.tpc when it raises; the failure neither escapes
\* fetch_texture nor turns the result into a miss.
C19_CompressedTextureResult ==
  CompressedHit =>
    /\ ret.kind = "ok"
    /\ ret.result.hit
    /\ IF tpc_bytes_to_png_bytes(RawBytes(ret.path, ret.entry)).kind = "ok"
       THEN /\ ret.result.data = tpc_bytes_to_png_bytes(RawBytes(ret.path, ret.entry)).bytes
            /\ ret.result.mime = "image/png"
            /\ ret.result.name = ret.entry.ResRef \o <<".","p","n","g">>
       ELSE /\ ret.result.data = RawBytes(ret.path, ret.entry)
            /\ ret.result.mime = "application/octet-stream"
            /\ ret.result.name = ret.entry.ResRef \o <<".","t","p","c">>

\* An entry of a compressed-texture type was resolved, the decoder raised
\* on its bytes, and the raw bytes came back.
C19_Witness ==
  /\ CompressedHit
  /\ RawBytes(ret.path, ret.entry) # <<>>
  /\ tpc_bytes_to_png_bytes(RawBytes(ret.path, ret.entry)).kind = "error"
  /\ ret.result.data = RawBytes(ret.path, ret.entry)

\* extract_resref or export_resource returned or raised
ByName == ret.op \in {"extract_resref", "export_resource"}

\* The name is stored under more than one type code
Ambiguous(name) == Cardinality(TypeCodes(StoredUnder(name))) > 1

\* C11: extract_resref and export_resource never swallow an error raised
\* by the lookup: called without a type code on a name stored under more
\* than one type code they raise the ambiguity error, and neither raise the
\* unknown-resource error nor return bytes or a file of the fallback
\* resolver.
C11_AmbiguityReachesCaller ==
  ( ByName /\ ret.type = NoType /\ Ambiguous(ret.resref) ) =>
    /\ ret.kind = "error"
    /\ ret.exc = "ValueError"

\* A by-name call without a type code on an ambiguous name ended with the
\* fallback resolver's bytes.
C11_Witness ==
  /\ ByName
  /\ ret.type = NoType
  /\ Ambiguous(ret.resref)
  /\ ret.kind = "ok"
  /\ ret.fetch.hit

\* A by-name call with an explicit type code that is not a texture type
\* found no entry in the primary backend
NonTextureMiss ==
  /\ ByName
  /\ ret.type # NoType
  /\ ret.type \notin ALLOWED_TEXTURE_TYPES
  /\ ret.find = "none"

\* C13: the fallback resolver serves texture types only: extract_resref or
\* export_resource with an explicit non-texture type code that misses the
\* primary backend returns no bytes and writes no file of the fallback
\* resolver, and raises the unknown-resource error.
C13_FallbackOnlyForTextures ==
  NonTextureMiss =>
    /\ ret.kind = "error"
    /\ ret.exc = "KeyError"
    /\ ~ret.fetch.hit

\* A by-name call for a model type code missed the primary backend and
\* ended with the fallback resolver's texture.
C13_Witness ==
  /\ NonTextureMiss
  /\ ret.type = 2002
  /\ ret.kind = "ok"
  /\ ret.fetch.hit
  /\ ret.fetch.mime = "image/png"

\* An export of an entry wrote its file on the primary path
EntryExported ==
  /\ ret.op \in {"export_entry", "erf.export_entry", "rim.export_entry"}
  /\ ret.kind = "ok"
  /\ ret.op = "export_entry" => ret.wrote = "primary"

\* The registry's extension of a type code, "bin" when it lists none
RegistryExtension(t) ==
  IF t \in DOMAIN TypeTable THEN TypeTable[t] ELSE <<"b","i","n">>

\* C20: the export of an entry writes exactly the bytes of its extraction
\* to <sanitized name>.<ext> in the export folder, where <ext> is the
\* registry's extension of the entry's type code when the code is
\* registered and "bin" when it is not; for the ERF decoder, the RIM
\* decoder and the engine alike.
C20_ExportFileName ==
  EntryExported =>
    /\ ret.name = sanitize_resref(ret.entry.ResRef) \o <<".">>
                    \o RegistryExtension(EntryType(ret.entry))
    /\ ret.name \in DOMAIN out_files
    /\ out_files[ret.name] = extract_entry(ret.entry).value

\* The ERF decoder exported an entry whose type code the registry does not
\* list.
C20_Witness ==
  /\ EntryExported
  /\ ret.op = "erf.export_entry"
  /\ ret.entry.ResType \notin DOMAIN TypeTable
  /\ ret.name \in DOMAIN out_files

\* The engine's export of an entry failed on its primary path
PrimaryFailed ==
  /\ ret.op \in {"export_entry", "export_resource"}
  /\ ret.find = "found"
  /\ ret.primary # ""

\* C12: when the engine's export of an entry fails on the primary path
\* (extraction or write raises) the fallback resolver is tried before any
\* error reaches the caller; if the fallback yields a result its bytes are
\* written and no error is raised; if it yields nothing the error raised is
\* the primary path's error itself.
C12_ExportFallback ==
  PrimaryFailed =>
    /\ ret.calls[2] = "_fetch_texture_bytes"
    /\ ret.fetch.hit =>
         /\ ret.kind = "ok"
         /\ ret.wrote = "fallback"
         /\ ret.name \in DOMAIN out_files
         /\ out_files[ret.name] = ret.fetch.data
    /\ ~ret.fetch.hit =>
         /\ ret.kind = "error"
         /\ ret.exc = ret.primary

\* The extraction failed on a missing segment, the fallback resolver
\* yielded a texture, and the export still ended in an error.
C12_Witness ==
  /\ PrimaryFailed
  /\ ret.primary = "FileNotFoundError"
  /\ ret.fetch.hit
  /\ ret.kind = "error"
  /\ ret.exc = "PermissionError"

\* An export of an entry returned or raised
IsEntryExport == ret.op \in {"export_entry", "erf.export_entry", "rim.export_entry"}

\* C21: exporting a sequence of entries of one archive into one folder
\* never replaces a file written before with different content: two
\* entries that differ in name or type code and in bytes are never written
\* to the same path.
C21_NoOverwriteWithOtherContent ==
  [][ ret'.op \in {"export_entry", "erf.export_entry", "rim.export_entry"} =>
        \A n \in DOMAIN out_files :
          n \in DOMAIN out_files' /\ out_files'[n] = out_files[n] ]_vars

\* The engine exported an entry of a flat container that lists another
\* entry of the same name under another type code and with other bytes.
C21_Witness ==
  /\ IsEntryExport
  /\ ret.kind = "ok"
  /\ erf # None
  /\ ret.name \in DOMAIN out_files
  /\ \E e \in Range(erf.entries) :
       /\ e.ResRef = ret.entry.ResRef
       /\ e.ResType # ret.entry.ResType
       /\ ExtensionOrBin(e.ResType) = ExtensionOrBin(ret.entry.ResType)
       /\ archive_extract_entry(erf, e) # out_files[ret.name]

\* The characters A-Z, a-z, 0-9, _ and -
SafeChars ==
  { "A","B","C","D","E","F","G","H","I","J","K","L","M","N","O","P","Q","R","S","T",
    "U","V","W","X","Y","Z","a","b","c","d","e","f","g","h","i","j","k","l","m","n",
    "o","p","q","r","s","t","u","v","w","x","y","z","0","1","2","3","4","5","6","7",
    "8","9","_","-" }

\* C22: for every raw name, the empty one and those made of disallowed
\* characters included, the sanitized name is not empty and consists only
\* of A-Z, a-z, 0-9, _ and -, so it holds no null byte, path separator or
\* control character; sanitizing a sanitized name returns it unchanged.
C22_SanitizedNameSafe ==
  ret.op = "sanitize_resref" =>
    /\ ret.name # <<>>
    /\ \A i \in 1..Len(ret.name) : ret.name[i] \in SafeChars
    /\ \A i \in 1..Len(ret.name) : ret.name[i] \notin {"NUL", "TAB", "/"}
    /\ sanitize_resref(ret.name) = ret.name

\* A raw name made only of disallowed characters was sanitized.
C22_Witness ==
  /\ ret.op = "sanitize_resref"
  /\ ret.raw # <<>>
  /\ \A i \in 1..Len(ret.raw) : ret.raw[i] \notin SafeChars
  /\ ret.name = Unknown

\* C23: every successful engine export, by entry or by name, through the
\* primary path or through the fallback resolver, writes exactly one file
\* in the export folder, and the stem of its name is the sanitized name of
\* the resource requested; a fuzzy fallback hit does not name the file
\* after another resource.
C23_FileNamedAfterRequest ==
  [][ ( ret'.op \in {"export_entry", "export_resource"} /\ ret'.kind = "ok" ) =>
        /\ DOMAIN out_files' = DOMAIN out_files \cup {ret'.name}
        /\ \A n \in DOMAIN out_files : n # ret'.name => out_files'[n] = out_files[n]
        /\ PathStem(ret'.name) = sanitize_resref(ret'.resref) ]_vars

\* An export by name ended with a file written from a fuzzy match of the
\* fallback resolver.
C23_Witness ==
  /\ ret.op = "export_resource"
  /\ ret.kind = "ok"
  /\ ret.wrote = "fallback"
  /\ ret.name \in DOMAIN out_files
  /\ Lower(PathStem(ret.fetch.name)) # Lower(ret.resref)

\* The engine exported an entry of a compressed-texture type on its
\* primary path
PrimaryTextureExport ==
  /\ ret.op \in {"export_entry", "export_resource"}
  /\ ret.kind = "ok"
  /\ ret.wrote = "primary"
  /\ EntryType(ret.entry) \in {2007, 3007}

\* The engine exported the fallback resolver's result
FallbackExport ==
  /\ ret.op \in {"export_entry", "export_resource"}
  /\ ret.kind = "ok"
  /\ ret.wrote = "fallback"

\* C24 as stated: whenever the engine exports a resource of type 2007 or
\* 3007 whose bytes decode, the file written holds the PNG encoding,
\* whether the primary backend or the fallback resolver served it.
C24_ExportedTextureIsPng ==
  /\ ( PrimaryTextureExport
        /\ tpc_bytes_to_png_bytes(extract_entry(ret.entry).value).kind = "ok" ) =>
       out_files[ret.name] = tpc_bytes_to_png_bytes(extract_entry(ret.entry).value).bytes
  /\ ( FallbackExport /\ ret.fetch.mime = "image/png" ) =>
       out_files[ret.name] = ret.fetch.data

\* C24, amended: on the primary path the engine writes the bytes of the
\* extraction undecoded, under the registry extension tpc; only the
\* fallback resolver's result is written decoded: when the bytes of the
\* pack entry decode, the file holds the PNG encoding under the name
\* <entry name>.png.
C24_OnlyFallbackDecodes ==
  /\ PrimaryTextureExport =>
       /\ out_files[ret.name] = extract_entry(ret.entry).value
       /\ PathSuffix(ret.name) = <<".","t","p","c">>
  /\ FallbackExport =>
       /\ out_files[ret.name] = ret.fetch.data
       /\ \E p \in AllContainers : \E e \in TextureEntries(p) :
            /\ ret.name = sanitize_resref(e.ResRef) \o PathSuffix(ret.fetch.name)
            /\ ( e.ResType \in {2007, 3007}
                  /\ tpc_bytes_to_png_bytes(RawBytes(p, e)).kind = "ok" ) =>
                 /\ out_files[ret.name] = tpc_bytes_to_png_bytes(RawBytes(p, e)).bytes
                 /\ PathSuffix(ret.name) = <<".","p","n","g">>

\* The engine exported a texture of type 2007 from its primary backend;
\* the bytes would decode, and the file holds them undecoded.
C24_Witness ==
  /\ PrimaryTextureExport
  /\ tpc_bytes_to_png_bytes(extract_entry(ret.entry).value).kind = "ok"
  /\ out_files[ret.name] = extract_entry(ret.entry).value

\* C25: an engine is constructed only with exactly one of an index path and
\* a flat-container path (both or neither is rejected and no engine
\* exists), and every engine has exactly one of its two backends set.
C25_ExactlyOneBackend ==
  /\ ( ret.op = "init" /\ ret.kp.isNone = ret.ep.isNone ) =>
       ( ret.kind = "error" /\ ret.exc = "ValueError" /\ ~constructed )
  /\ constructed => ( (key # None) # (erf # None) )

\* An engine was constructed and neither backend is set.
C25_Witness ==
  /\ constructed
  /\ ret.op = "init"
  /\ ret.kind = "ok"
  /\ key = None
  /\ erf = None

\* The outcome of extract_entry as the caller sees it
Outcome(x) == <<x.kind, x.exc, x.value>>

\* The outcome of extracting the entry from the files as they are on disk,
\* whatever the segment cache holds
DiskOutcome(e) ==
  IF erf # None
  THEN <<"ok", "", Slice(world.flat.data, e.Offset, e.Offset + e.Size)>>
  ELSE Outcome(ResolveSlot(e, _load_bif_reopen(e.BIFIndex)))

\* C26: extract_entry is pure and idempotent: in every state, whatever
\* find and extract calls were made before, each entry extracts to the
\* bytes (or the error) that the files on disk determine, and no find or
\* extract call modifies an archive's buffer, its entry tables or its name
\* index; in indexed mode extract_entry changes nothing but the segment
\* cache, and there only adds the segment it references.
C26_ExtractPure ==
  /\ [] ( constructed =>
            \A e \in BackendEntries : Outcome(extract_entry(e)) = DiskOutcome(e) )
  /\ [][ ret'.op \in {"get_resource_entry", "erf.get_entry", "extract_entry",
                       "extract_resref"} =>
           /\ key' = key
           /\ erf' = erf
           /\ by_resref' = by_resref
           /\ by_resid' = by_resid
           /\ by_entry_index' = by_entry_index
           /\ \A i \in DOMAIN bif_cache :
                i \in DOMAIN bif_cache' /\ bif_cache'[i] = bif_cache[i]
           /\ ret'.op \in {"get_resource_entry", "erf.get_entry"} =>
                bif_cache' = bif_cache
           /\ ret'.op = "extract_entry" =>
                /\ texture_lookup' = texture_lookup
                /\ erf # None => bif_cache' = bif_cache
                /\ erf = None =>
                     DOMAIN bif_cache' \subseteq DOMAIN bif_cache \cup {ret'.entry.BIFIndex}
                /\ <<ret'.kind, ret'.exc, ret'.value>> = DiskOutcome(ret'.entry) ]_vars

\* In indexed mode an entry was extracted from a segment the cache held
\* already.
C26_Witness ==
  /\ IndexedMode
  /\ ret.op = "extract_entry"
  /\ ret.kind = "ok"
  /\ ~ret.opened
  /\ ret.entry.BIFIndex \in DOMAIN bif_cache
  /\ ret.value # <<>>

\* Row y (counted from 0) of a buffer whose rows are stride bytes long
RowOf(buf, y, stride) == [k \in 1..stride |-> buf[y * stride + k]]

\* C27: for a buffer of exactly width * height * channels bytes, row y of the
\* flipped buffer is row height - 1 - y of the source, the buffer keeps its
\* length, and flipping the result again gives the source back.
C27_FlipVertical ==
  (ret.op = "_flip_vertical" /\ Len(ret.data) = ret.width * ret.height * ret.channels) =>
    /\ Len(ret.out) = Len(ret.data)
    /\ \A y \in 0..(ret.height - 1) :
         RowOf(ret.out, y, ret.width * ret.channels)
           = RowOf(ret.data, ret.height - 1 - y, ret.width * ret.channels)
    /\ _flip_vertical(ret.width, ret.height, ret.channels, ret.out) = ret.data

C27_Witness ==
  /\ ret.op = "_flip_vertical"
  /\ ret.height = 2 /\ ret.width = 2 /\ ret.channels = 3
  /\ Len(ret.data) = 12
  /\ ret.out # ret.data
  /\ ret.data = world.image.data

\* The scanline stream that the compressed-data chunk of an encoded image
\* compresses
StreamOf(png) == png[3].data.zlib

\* The colour type the header names for a number of channels
ColourType(channels) == CASE channels = 1 -> 0 [] channels = 3 -> 2 [] OTHER -> 6

\* C28: the encoder emits the signature, then the header, compressed-data and
\* terminator chunks in this order; the header carries the width and the
\* height as 32-bit big-endian numbers, bit depth 8, colour type 0, 2 or 6 for
\* 1, 3 or 4 channels and three zero bytes; the compressed stream is, for
\* each row from the top, a zero byte followed by the width * channels bytes
\* of the row, height * (1 + width * channels) bytes in all; any other pixel
\* layout is rejected with an error.
C28_EncodePng ==
  ret.op = "_encode_png" =>
    IF ret.mode \in {"L", "RGB", "RGBA"}
    THEN LET c == PixelBytes(ret.mode)
             stride == ret.width * c
         IN /\ ret.kind = "ok"
            /\ Len(ret.png) = 4
            /\ ret.png[1] = <<137, 80, 78, 71, 13, 10, 26, 10>>
            /\ <<ret.png[2].type, ret.png[3].type, ret.png[4].type>> = <<"IHDR", "IDAT", "IEND">>
            /\ \A i \in 2..4 : /\ ret.png[i].length_of = ret.png[i].data
                               /\ ret.png[i].crc_of = <<ret.png[i].type, ret.png[i].data>>
            /\ Len(ret.png[2].data) = 13
            /\ Slice(ret.png[2].data, 0, 4) = <<0, 0, 0, ret.width>>
            /\ Slice(ret.png[2].data, 4, 8) = <<0, 0, 0, ret.height>>
            /\ Slice(ret.png[2].data, 8, 13) = <<8, ColourType(c), 0, 0, 0>>
            /\ Len(StreamOf(ret.png)) = ret.height * (1 + stride)
            /\ \A y \in 0..(ret.height - 1) :
                 /\ StreamOf(ret.png)[y * (1 + stride) + 1] = 0
                 /\ \A k \in 1..stride :
                      StreamOf(ret.png)[y * (1 + stride) + 1 + k] = ret.data[y * stride + k]
            /\ ret.png[4].data = <<>>
    ELSE ret.kind = "error" /\ ret.exc = "ValueError"

C28_Witness ==
  /\ ret.op = "_encode_png"
  /\ ret.mode = "RGBA" /\ ret.width = 2 /\ ret.height = 2
  /\ ret.kind = "ok"
  /\ Len(StreamOf(ret.png)) = 18

\* A layout the encoder does not know is refused.
C28_RejectWitness ==
  /\ ret.op = "_encode_png"
  /\ ret.mode = "LA" /\ ret.width = 1 /\ ret.height = 1
  /\ ret.kind = "error"

\* The engine serves a flat container.
FlatMode == constructed /\ erf # None

ByNameOps == {"extract_resref", "export_resource"}

\* The handle h2 is the handle h after more lookups: the same resolver, its
\* caches grown.
SameResolver(h, h2) ==
  IF h.state = "object"
  THEN /\ h2.state = "object"
       /\ h2.texturepack_erfs = h.texturepack_erfs
       /\ \A n \in DOMAIN h.result_cache :
            n \in DOMAIN h2.result_cache /\ h2.result_cache[n] = h.result_cache[n]
       /\ \A q \in DOMAIN h.erf_cache :
            q \in DOMAIN h2.erf_cache /\ h2.erf_cache[q] = h.erf_cache[q]
  ELSE h2 = h

\* C29: in flat-container mode the fallback handle stays unset and no
\* fallback container is read, a by-name extraction or export that finds no
\* entry raises the unknown-resource error, and a failed export of an entry
\* raises its primary error; in indexed mode the handle is set by the first
\* operation that reaches the fallback and from then on stays the same
\* resolver, or the same failure mark.
C29_FallbackHandle ==
  /\ [] (FlatMode => texture_lookup = TL_None /\ erf_parses = EmptyMap)
  /\ [][ /\ (FlatMode /\ ret'.op \in ByNameOps /\ ret'.find # "found") =>
             ret'.kind = "error" /\ ret'.exc = "KeyError"
         /\ (FlatMode /\ ret'.op \in {"export_entry", "export_resource"}
                /\ ret'.find = "found" /\ ret'.primary # "") =>
             ret'.kind = "error" /\ ret'.exc = ret'.primary /\ out_files' = out_files
         /\ (IndexedMode /\ texture_lookup # TL_None) =>
             SameResolver(texture_lookup, texture_lookup')
         /\ (IndexedMode /\ texture_lookup = TL_None) =>
             ( texture_lookup' # TL_None
                 <=> /\ ret'.op \in ByNameOps \cup {"export_entry"}
                     /\ \E i \in DOMAIN ret'.calls : ret'.calls[i] = "_fetch_texture_bytes" )
       ]_vars

\* The resolver could not be built on the first miss, and a later miss left
\* the failure mark in place.
C29_Witness ==
  /\ IndexedMode
  /\ texture_lookup = TL_False
  /\ ret.op = "export_entry" /\ ret.kind = "error" /\ ret.primary = "FileNotFoundError"
  /\ world.queries = {tex, tex1}

\* A flat container whose export of an entry failed on the write.
C29_FlatWitness ==
  /\ FlatMode
  /\ ret.op = "export_entry" /\ ret.kind = "error" /\ ret.primary = "PermissionError"
  /\ texture_lookup = TL_None

\* The positions (from 1) of the key-table records that carry an identifier
Carriers(resid) == { i \in 1..Len(key.key_table) : key.key_table[i].ResID = resid }

\* C30: in indexed mode the lookup by packed identifier returns the last
\* key-table record that carries the identifier, and every earlier record
\* with it is still listed under its name and returned by its sequential
\* index; the lookup by sequential index i returns the i-th record for
\* 0 <= i < record count; in flat-container mode both return None.
C30_LookupByIdAndIndex ==
  /\ (ret.op \in {"get_resource_entry_by_resid", "get_resource_entry_by_index"} /\ FlatMode)
       => ret.entry = None
  /\ (ret.op = "get_resource_entry_by_resid" /\ IndexedMode /\ Carriers(ret.resid) # {}) =>
       LET last == MaxOf(Carriers(ret.resid)) IN
       /\ ret.entry = key.key_table[last]
       /\ ret.entry.ResID = ret.resid
       /\ \A i \in Carriers(ret.resid) \ {last} :
            /\ key.key_table[i] # ret.entry
            /\ key.key_table[i] \in Range(get_resource_entries(key.key_table[i].ResRef))
            /\ get_resource_entry_by_index(i - 1) = key.key_table[i]
  /\ (ret.op = "get_resource_entry_by_index" /\ IndexedMode
        /\ 0 <= ret.index /\ ret.index < Len(key.key_table)) =>
       /\ ret.entry = key.key_table[ret.index + 1]
       /\ ret.entry.ResRef = DecodeResRef(world.key.key_table[ret.index + 1].ResRef)
       /\ ret.entry.ResID = world.key.key_table[ret.index + 1].ResID

\* Two records of different names carry one identifier; the lookup returned
\* the second.
C30_Witness ==
  /\ IndexedMode
  /\ ret.op = "get_resource_entry_by_resid"
  /\ Cardinality(Carriers(ret.resid)) = 2
  /\ ret.entry.EntryIndex = 1
  /\ key.key_table[1].ResRef # key.key_table[2].ResRef

C30_IndexWitness ==
  /\ IndexedMode
  /\ ret.op = "get_resource_entry_by_index"
  /\ ret.index = 1 /\ Len(key.key_table) = 2
  /\ ret.entry # None

C30_FlatWitness ==
  /\ FlatMode
  /\ ret.op = "get_resource_entry_by_resid"
  /\ ret.entry = None

====
